---------------------------- MODULE Spec2Model ----------------------------
(***************************************************************************)
(* CabinChat host relay (core/host.go, core/protocol.go).                  *)
(*                                                                         *)
(* One goroutine per accepted connection runs Host.handleClient; the UI    *)
(* goroutine runs Host.SendText and Host.Shutdown.  Each action below is   *)
(* one step of one goroutine.  A step groups the statements of the source  *)
(* that touch at most one piece of shared state (an RWMutex section is one *)
(* step); statements that touch shared state without the lock are steps of *)
(* their own, so that other goroutines can run between them.  SpecLock    *)
(* and SpecWrite go below that: there the registry lock, and the write     *)
(* lock of a connection, are taken and released in steps of their own.     *)
(***************************************************************************)
EXTENDS Integers, Sequences, FiniteSets, TLC

(* ------------------------------ bounds --------------------------------- *)

\* Number of frames the host reads from all connections in one run of Spec
\* and of SpecOffer.
MaxReads == 4

\* Number of frames the host reads in one run of FairSpec.
MaxLeaveReads == 3

\* Number of frames the host reads in one run of SpecFile.
MaxFileReads == 4

\* Number of frames the host reads in one run of SpecSignal.
MaxSignalReads == 4

\* Number of frames the host reads in one run of SpecList.
MaxListReads == 4

\* Number of frames the host reads in one run of SpecError.
MaxErrorReads == 4

\* Number of frames the host reads in one run of SpecLock.
MaxLockReads == 4

\* Number of frames the host reads in one run of SpecWrite, and the number
\* of chat lines the host's user types in it.
MaxWriteReads == 3

MaxSays == 1

\* The connections that take part in a run of SpecWrite.
WriteConns == {1, 2}

\* Number of frames the host reads in one run of SpecShutdown.
MaxShutdownReads == 3

\* Number of frames the host reads in one run of SpecBroadcast.
MaxBroadcastReads == 4

\* Number of frames the host reads in one run of SpecOrphan.
MaxOrphanReads == 4

\* Number of frames the host reads in one run of SpecResolve.
MaxResolveReads == 5

\* Number of frames the host reads in one run of SpecHost, and of frames
\* its UI goroutine writes there.
MaxHostReads == 3

MaxHostFrames == 2

\* Number of frames the host reads in one run of SpecDecide.
MaxDecideReads == 4

\* Number of frames the host reads in one run of SpecLive.
MaxLiveReads == 2

\* The connections that take part in a run of SpecLive.
LiveConns == {1, 2}

\* Number of frames the host reads in one run of SpecSender.
MaxSenderReads == 4

\* Number of frames a client program reads and writes in one run.
MaxClientEvents == 6

\* Number of frames the host reads in one run of SpecStart.
MaxStartReads == 3

\* The connections that take part in a run of SpecResolve.
ResolveConns == {1, 2}

\* Number of connections whose read fails in one run.
MaxGone == 1

\* Connections the listener may accept in one run.
Conns == 1..3

\* Nicknames a client may put in a Join frame or cite in a frame.
Nicks == {"a", "b"}

\* The body of the n-th frame of a connection, when that frame is a Chat, and
\* its file name, when it is a FileOffer.  The host copies chat bodies and
\* file names and never compares them, so every frame of a connection carries
\* a body or a name of its own.
Body(n) == "t" \o ToString(n)

FileName(n) == "f" \o ToString(n)

\* The nickname the host was created with (NewHost's nick argument).
HostNick0 == "h"

\* Tasks that call SendMessage: a connection handler or the UI goroutine.
HostTask == -1

\* net.Conn nil (the exclude argument of broadcast).
NilConn == 0

\* Targets a client may name in a FileOffer: everyone (""), the host, a nickname.
Targets == {"", HostNick0} \cup Nicks

\* &PendingOffer{...}: the four fields of the struct, and Ref, the identity
\* of the allocated struct (the pointer), given here by the ordinal of the
\* FileOffer frame on its connection that allocated it.
PendingOffer(senderNick, senderConn, filename, recipientNick, ref) ==
    [SenderNick |-> senderNick, SenderConn |-> senderConn, Filename |-> filename,
     RecipientNick |-> recipientNick, Ref |-> ref]

\* *PendingOffer nil.
NoOffer == PendingOffer("", NilConn, "", "", 0)

\* m[key] = value and delete(m, key) on a Go map.
Put(m, key, value) ==
    [k \in DOMAIN m \cup {key} |-> IF k = key THEN value ELSE m[k]]

\* A delete that leaves the map as it is.
KeepKey(m, key) == m

Delete(m, key) == [k \in DOMAIN m \ {key} |-> m[k]]

(* --------------------------- protocol.go ------------------------------- *)

MsgTypeJoin      == "join"
MsgTypeMsg       == "msg"
MsgTypeSystem    == "system"
MsgTypeNick      == "nick"
MsgTypeUserList  == "userlist"
MsgTypePing      == "ping"
MsgTypePong      == "pong"
MsgTypeFileOffer == "fileoffer"
MsgTypeFileAcc   == "fileacc"
MsgTypeFileRej   == "filerej"
MsgTypeFile      == "file"
MsgTypeWebRTC    == "webrtc"

\* The kinds handleClient's switch has a case for.
HandledTypes ==
    {MsgTypeMsg, MsgTypeNick, MsgTypePing, MsgTypeUserList, MsgTypeFileOffer,
     MsgTypeFileAcc, MsgTypeFileRej, MsgTypeFile, MsgTypeWebRTC}

\* Kinds a client may put in a frame that the switch has no case for: the
\* declared but unhandled MsgTypeLeave, and a string that is no constant of
\* protocol.go.  json.Unmarshal stores any string in Message.Type.
MsgTypeLeave == "leave"
OtherTypes == {MsgTypeLeave, "bogus"}

\* type Message struct
Message(type, nick, text, data, target) ==
    [Type |-> type, Nick |-> nick, Text |-> text, Data |-> data, Target |-> target]

SystemMessage(text) == Message(MsgTypeSystem, "", text, "", "")

\* sync.RWMutex: w is the task that holds Lock (NilConn when none does), r
\* the tasks that hold RLock.
RWMutex(w, r) == [w |-> w, r |-> r]

Unlocked == RWMutex(NilConn, {})

\* The tasks that write on connections: the handlers and the UI goroutine.
Tasks == Conns \cup {HostTask}

\* What a task is sending: frame m, to the connections of todo one after the
\* other, cur being the one whose conn.Write it is in, rl telling whether it
\* holds the registry lock in read mode for the time of the sending.
Sending(m, todo, cur, rl) == [m |-> m, todo |-> todo, cur |-> cur, rl |-> rl]

VARIABLES
    pc,              \* position of each connection's handleClient goroutine
    clients,         \* Host.clients: the connections that are keys of the map
    nick,            \* Client.nick of each connection's Client
    msg,             \* handleClient's local msg: the last frame ReadMessage returned
    pendingOffers,   \* Host.pendingOffers: sender nick -> PendingOffer
    hostPendingFile, \* Host.hostPendingFile
    hnick,           \* Host.nick
    listening,       \* Host.listener is open
    closed,          \* the host has called conn.Close() on the connection
    wire,            \* frames written on each connection, with the writing task
    notices,         \* texts handed to HostCallbacks.OnSystemMessage
    oldNick,         \* handleClient's local oldNick (case MsgTypeNick)
    offer,           \* handleClient's local offer (case MsgTypeFileAcc / FileRej)
    reads,           \* number of frames ReadMessage has returned on each connection
    saved,           \* files hostSaveFile has written: name -> decoded content
    signals,         \* <<from, payload>> pairs handed to mediaManager.HandleSignal
    mutex,           \* Host.mutex: the task holding Lock, the tasks holding RLock
    fdmu,            \* the task inside conn.Write on each connection (NilConn: none)
    stream,          \* the pieces of frames each connection has taken, in order
    out,             \* the frame each task is sending and the connections still to get it
    hpc,             \* position of the host's UI goroutine (Start, SendText, Shutdown)
    mdnsServer,      \* Host.mdnsServer is registered and advertising the room
    chatClient       \* a ChatClient program: its fields and its goroutines' positions

handlerVars == <<pc, nick, msg, oldNick, offer, reads>>
offerVars   == <<pendingOffers, hostPendingFile>>
writeVars   == <<fdmu, stream, out>>
lockVars    == <<mutex, writeVars>>
\* What no connection handler of the host writes: the host's nickname and the
\* position of its UI goroutine, the advertisement, a client program.
uiVars      == <<hnick, hpc, mdnsServer, chatClient>>
hostVars    == <<uiVars, listening, saved, signals, lockVars>>
netVars     == <<closed, wire>>

vars == <<handlerVars, clients, offerVars, hostVars, netVars, notices>>

\* Frames read so far on all connections.
RECURSIVE Sum(_, _)
Sum(f, S) ==
    IF S = {} THEN 0
    ELSE LET c == CHOOSE x \in S : TRUE IN f[c] + Sum(f, S \ {c})

NumReads == Sum(reads, Conns)

\* Fewer than n frames have been read.
Budget(n) == NumReads < n

\* Connections whose handler has seen a read fail (or refused the first frame).
NumGone ==
    Cardinality({c \in Conns :
        pc[c] \in {"failed", "removing", "closing", "leaving", "parting", "done"}})

CanFail == NumGone < MaxGone

NoMsg == Message("", "", "", "", "")

\* The task is sending nothing.
NotSending == Sending(NoMsg, {}, NilConn, FALSE)

\* &ChatClient{...} as NewChatClient returns it, with the positions of its
\* two goroutines: lastOfferedFile is the field; loop is receiveLoop's
\* position ("recv", "clearing" between sendActualFile and the assignment
\* that follows it, "stopped" once it has returned); offering is
\* sendFileOffer's local path between its SendMessage and its assignment to
\* lastOfferedFile ("" outside that window); log is what the client has read
\* from and written on its connection, in order; lost counts the calls of
\* OnConnectionLost.
ChatClient(lastOfferedFile, loop, offering, log, lost) ==
    [lastOfferedFile |-> lastOfferedFile, loop |-> loop, offering |-> offering,
     log |-> log, lost |-> lost]

NewChatClient == ChatClient("", "recv", "", <<>>, 0)

\* Where the host's UI goroutine is, and SendText's local oldNick.
UI(at, old) == [at |-> at, oldNick |-> old]

\* Start has returned nil and no command is being processed.
Serving == UI("serving", "")

(* ------------------------- SendMessage, broadcast ---------------------- *)

\* A write that puts the frame before the frames already written.
SendMessageFront(w, conn, m, by) ==
    IF closed[conn] THEN w
    ELSE [w EXCEPT ![conn] = <<[msg |-> m, by |-> by]>> \o @]

\* SendMessage(conn, msg) called by task `by`: the frame is written unless
\* the host has closed the connection (the write then fails and every caller
\* ignores the error).
SendMessage(w, conn, m, by) ==
    IF closed[conn] THEN w
    ELSE [w EXCEPT ![conn] = Append(@, [msg |-> m, by |-> by])]

\* A broadcast that also skips the connection of the writing handler.
broadcastOthers(w, m, exclude, by) ==
    [conn \in Conns |->
        IF conn \in clients /\ conn # exclude /\ conn # by /\ ~closed[conn]
        THEN Append(w[conn], [msg |-> m, by |-> by])
        ELSE w[conn]]

\* A broadcast that skips nobody.
broadcastAll(w, m, exclude, by) ==
    [conn \in Conns |->
        IF conn \in clients /\ ~closed[conn]
        THEN Append(w[conn], [msg |-> m, by |-> by])
        ELSE w[conn]]

\* A broadcast that skips every connection registered under the nickname of
\* the excluded one.
broadcastByNick(w, m, exclude, by) ==
    [conn \in Conns |->
        IF conn \in clients /\ ~closed[conn]
           /\ (exclude = NilConn \/ nick[conn] # nick[exclude])
        THEN Append(w[conn], [msg |-> m, by |-> by])
        ELSE w[conn]]

\* Host.broadcast(msg, exclude), under mutex.RLock.
broadcast(w, m, exclude, by) ==
    [conn \in Conns |->
        IF conn \in clients /\ conn # exclude
        THEN SendMessage(w, conn, m, by)[conn]
        ELSE w[conn]]

\* A unicast that writes the frame on every connection with the nickname.
sendToEveryNick(w, n, m, by) ==
    {[conn \in Conns |->
        IF conn \in clients /\ nick[conn] = n /\ ~closed[conn]
        THEN Append(w[conn], [msg |-> m, by |-> by])
        ELSE w[conn]]}

\* A unicast that falls back on every registered connection when nobody has
\* the nickname.
sendToNickOrAll(w, n, m, by) ==
    IF \E conn \in clients : nick[conn] = n
    THEN {SendMessage(w, conn, m, by) : conn \in {x \in clients : nick[x] = n}}
    ELSE {[conn \in Conns |->
            IF conn \in clients /\ ~closed[conn]
            THEN Append(w[conn], [msg |-> m, by |-> by])
            ELSE w[conn]]}

\* Host.sendToNick(nick, msg), under mutex.RLock: the first client with that
\* nickname met by the map iteration (any of them, Go's map order being
\* unspecified) gets the frame; with no match nothing is sent.
sendToNick(w, n, m, by) ==
    LET matches == {conn \in clients : nick[conn] = n} IN
    IF matches = {} THEN {w}
    ELSE {SendMessage(w, conn, m, by) : conn \in matches}

\* A reply that is a FileAccept whatever the decision.
ReplyAccept(type, n, filename) == Message(MsgTypeFileAcc, n, filename, "", "")

\* The FileAccept / FileReject frame sent back to an offer's sender:
\* Message{fileacc, nick, offer.Filename} or Message{filerej, nick}.
Reply(type, n, filename) ==
    IF type = MsgTypeFileAcc
    THEN Message(MsgTypeFileAcc, n, filename, "", "")
    ELSE Message(MsgTypeFileRej, n, "", "", "")

\* ReadMessage(reader) returns frame m on connection c.
Read(c, m) ==
    /\ msg' = [msg EXCEPT ![c] = m]
    /\ reads' = [reads EXCEPT ![c] = @ + 1]

(* ------------------------------ Init ----------------------------------- *)

\* NewHost(nick, app, callbacks): empty registry and offer table, nothing
\* read or written yet.
Fresh ==
    /\ pc = [c \in Conns |-> "idle"]
    /\ clients = {}
    /\ nick = [c \in Conns |-> ""]
    /\ msg = [c \in Conns |-> NoMsg]
    /\ oldNick = [c \in Conns |-> ""]
    /\ offer = [c \in Conns |-> NoOffer]
    /\ reads = [c \in Conns |-> 0]
    /\ pendingOffers = <<>>
    /\ hostPendingFile = NoOffer
    /\ hnick = HostNick0
    /\ chatClient = NewChatClient
    /\ saved = <<>>
    /\ signals = {}
    /\ mutex = Unlocked
    /\ fdmu = [c \in Conns |-> NilConn]
    /\ stream = [c \in Conns |-> <<>>]
    /\ out = [t \in Tasks |-> NotSending]
    /\ closed = [c \in Conns |-> FALSE]
    /\ wire = [c \in Conns |-> <<>>]
    /\ notices = {}

\* The host as NewHost returns it: Start has not been called.
NewHost ==
    /\ Fresh
    /\ hpc = UI("new", "")
    /\ mdnsServer = FALSE
    /\ listening = FALSE

\* The host once Start has returned nil, the room advertised.
Init ==
    /\ Fresh
    /\ hpc = Serving
    /\ mdnsServer = TRUE
    /\ listening = TRUE

(* ----------------------- acceptConnections ----------------------------- *)

\* Connections are opaque handles: the listener hands them out in the order
\* of Conns, so c is accepted once every earlier connection has been.
NextConn(c) == \A d \in Conns : d < c => pc[d] # "idle"

\* listener.Accept() returns a connection; go h.handleClient(conn).
Accept(c) ==
    /\ listening
    /\ pc[c] = "idle"
    /\ NextConn(c)
    /\ pc' = [pc EXCEPT ![c] = "connecting"]
    /\ UNCHANGED <<nick, msg, oldNick, offer, reads, clients, offerVars, hostVars,
                   netVars, notices>>

(* ---------------------- handleClient: handshake ------------------------ *)

\* The nicknames the next Join may carry.  Nicknames are only compared with
\* each other, so the first participant of a run is called "a".
JoinNicks == IF \A d \in Conns : nick[d] = "" THEN {"a"} ELSE Nicks

\* The first ReadMessage returns a Join: the Client is created and added to
\* h.clients under mutex.Lock.
Join(c) ==
    /\ pc[c] = "connecting"
    /\ \E n \in JoinNicks :
        /\ Read(c, Message(MsgTypeJoin, n, "", "", ""))
        /\ nick' = [nick EXCEPT ![c] = n]
    /\ clients' = clients \cup {c}
    /\ pc' = [pc EXCEPT ![c] = "announce"]
    /\ UNCHANGED <<oldNick, offer, offerVars, hostVars, netVars, notices>>

\* A refusal that nevertheless registers the connection.
RefuseFirstRegistered(c) ==
    /\ pc[c] = "connecting"
    /\ CanFail
    /\ \/ UNCHANGED <<msg, reads>>
       \/ Read(c, Message(MsgTypeMsg, "", Body(reads[c] + 1), "", ""))
    /\ closed' = [closed EXCEPT ![c] = TRUE]
    /\ clients' = clients \cup {c}
    /\ pc' = [pc EXCEPT ![c] = "done"]
    /\ UNCHANGED <<nick, oldNick, offer, offerVars, hostVars, wire, notices>>

\* The first ReadMessage fails, or returns a frame that is not a Join:
\* conn.Close(); return.
RefuseFirst(c) ==
    /\ pc[c] = "connecting"
    /\ CanFail
    /\ \/ UNCHANGED <<msg, reads>>
       \/ Read(c, Message(MsgTypeMsg, "", Body(reads[c] + 1), "", ""))
    /\ closed' = [closed EXCEPT ![c] = TRUE]
    /\ pc' = [pc EXCEPT ![c] = "done"]
    /\ UNCHANGED <<nick, oldNick, offer, clients, offerVars, hostVars, wire, notices>>

\* OnSystemMessage("<nick> joined"); broadcast(System "<nick> joined", conn).
Announce(c) ==
    /\ pc[c] = "announce"
    /\ notices' = notices \cup {nick[c] \o " joined"}
    /\ wire' = broadcast(wire, SystemMessage(nick[c] \o " joined"), c, c)
    /\ pc' = [pc EXCEPT ![c] = "loop"]
    /\ UNCHANGED <<nick, msg, oldNick, offer, reads, clients, offerVars, hostVars, closed>>

(* ---------------------- handleClient: read loop ------------------------ *)

\* A relay of a chat line under the nickname the frame carries.
ChatAsSent(c, n) ==
    /\ pc[c] = "loop"
    /\ Read(c, Message(MsgTypeMsg, n, Body(reads[c] + 1), "", ""))
    /\ wire' = broadcast(wire, Message(MsgTypeMsg, msg'[c].Nick, msg'[c].Text, "", ""),
                         NilConn, c)
    /\ UNCHANGED <<pc, nick, oldNick, offer, clients, offerVars, hostVars, closed, notices>>

\* case MsgTypeMsg, the frame read carrying n in its nick field:
\* broadcast(Message{msg, client.nick, msg.Text}, nil).
ChatAs(c, n) ==
    /\ pc[c] = "loop"
    /\ Read(c, Message(MsgTypeMsg, n, Body(reads[c] + 1), "", ""))
    /\ wire' = broadcast(wire, Message(MsgTypeMsg, nick[c], msg'[c].Text, "", ""), NilConn, c)
    /\ UNCHANGED <<pc, nick, oldNick, offer, clients, offerVars, hostVars, closed, notices>>

\* A chat line of a client that fills the nick field with its own nickname,
\* as ChatClient.SendText does.
Chat(c) == ChatAs(c, nick[c])

\* case MsgTypeNick: oldNick := client.nick; client.nick = msg.Text (the
\* registry lock is not taken).
NickChange(c) ==
    /\ pc[c] = "loop"
    /\ \E n \in Nicks : Read(c, Message(MsgTypeNick, nick[c], n, "", ""))
    /\ oldNick' = [oldNick EXCEPT ![c] = nick[c]]
    /\ nick' = [nick EXCEPT ![c] = msg'[c].Text]
    /\ pc' = [pc EXCEPT ![c] = "renamed"]
    /\ UNCHANGED <<offer, clients, offerVars, hostVars, netVars, notices>>

\* A notice that names the new nickname on both sides.
NickNoticeNew(c) ==
    /\ pc[c] = "renamed"
    /\ LET sysMsg == nick[c] \o " is now known as " \o nick[c] IN
        /\ notices' = notices \cup {sysMsg}
        /\ wire' = broadcast(wire, SystemMessage(sysMsg), c, c)
    /\ pc' = [pc EXCEPT ![c] = "loop"]
    /\ UNCHANGED <<nick, msg, oldNick, offer, reads, clients, offerVars, hostVars, closed>>

\* sysMsg := "<old> is now known as <new>"; OnSystemMessage(sysMsg);
\* broadcast(System sysMsg, conn).
NickNotice(c) ==
    /\ pc[c] = "renamed"
    /\ LET sysMsg == oldNick[c] \o " is now known as " \o nick[c] IN
        /\ notices' = notices \cup {sysMsg}
        /\ wire' = broadcast(wire, SystemMessage(sysMsg), c, c)
    /\ pc' = [pc EXCEPT ![c] = "loop"]
    /\ UNCHANGED <<nick, msg, oldNick, offer, reads, clients, offerVars, hostVars, closed>>

\* case MsgTypeFileOffer, first statement: h.pendingOffers[client.nick] =
\* &PendingOffer{...} (the registry lock is not taken).
FileOfferAs(c, n) ==
    /\ pc[c] = "loop"
    /\ \E target \in Targets :
         Read(c, Message(MsgTypeFileOffer, n, FileName(reads[c] + 1), "", target))
    /\ pendingOffers' = Put(pendingOffers, nick[c],
                            PendingOffer(nick[c], c, msg'[c].Text, msg'[c].Target, reads'[c]))
    /\ pc' = [pc EXCEPT ![c] = "offered"]
    /\ UNCHANGED <<nick, oldNick, offer, clients, hostPendingFile, hostVars, netVars, notices>>

\* A file offer of a client that fills the nick field with its own nickname.
FileOffer(c) == FileOfferAs(c, nick[c])

\* A routing step that never sets the host-local pending offer for an offer
\* to everyone.
OfferRouteTableOnly(c) ==
    /\ pc[c] = "offered"
    /\ LET offerMsg == Message(MsgTypeFileOffer, nick[c], msg[c].Text, msg[c].Data, "")
       IN  IF msg[c].Target # ""
           THEN IF msg[c].Target = hnick
                THEN /\ hostPendingFile' = PendingOffer(nick[c], c, msg[c].Text, "", reads[c])
                     /\ UNCHANGED <<wire, notices>>
                ELSE /\ wire' \in sendToNick(wire, msg[c].Target, offerMsg, c)
                     /\ notices' = notices \cup
                            {nick[c] \o " offers " \o msg[c].Text \o " to " \o msg[c].Target}
                     /\ UNCHANGED hostPendingFile
           ELSE /\ wire' = broadcast(wire, offerMsg, c, c)
                /\ UNCHANGED <<hostPendingFile, notices>>
    /\ pc' = [pc EXCEPT ![c] = "loop"]
    /\ UNCHANGED <<nick, msg, oldNick, offer, reads, clients, pendingOffers, hostVars, closed>>

\* case MsgTypeFileOffer, routing by msg.Target.
OfferRoute(c) ==
    /\ pc[c] = "offered"
    /\ LET offerMsg == Message(MsgTypeFileOffer, nick[c], msg[c].Text, msg[c].Data, "")
           hostOffer == PendingOffer(nick[c], c, msg[c].Text, "", reads[c])
       IN  IF msg[c].Target # ""
           THEN IF msg[c].Target = hnick
                THEN /\ hostPendingFile' = hostOffer
                     /\ UNCHANGED <<wire, notices>>
                ELSE /\ wire' \in sendToNick(wire, msg[c].Target, offerMsg, c)
                     /\ notices' = notices \cup
                            {nick[c] \o " offers " \o msg[c].Text \o " to " \o msg[c].Target}
                     /\ UNCHANGED hostPendingFile
           ELSE /\ wire' = broadcast(wire, offerMsg, c, c)
                /\ hostPendingFile' = hostOffer
                /\ UNCHANGED notices
    /\ pc' = [pc EXCEPT ![c] = "loop"]
    /\ UNCHANGED <<nick, msg, oldNick, offer, reads, clients, pendingOffers, hostVars, closed>>

\* A lookup that resolves an offer only for the recipient it names (or for
\* anybody when it names none).
ResolveForRecipient(c, n, type, next) ==
    /\ pc[c] = "loop"
    /\ \E senderNick \in Nicks : Read(c, Message(type, n, senderNick, "", ""))
    /\ LET senderNick == msg'[c].Text IN
        IF /\ senderNick \in DOMAIN pendingOffers
           /\ pendingOffers[senderNick].RecipientNick \in {"", nick[c]}
        THEN /\ offer' = [offer EXCEPT ![c] = pendingOffers[senderNick]]
             /\ wire' = SendMessage(wire, offer'[c].SenderConn,
                                    Reply(type, nick[c], offer'[c].Filename), c)
             /\ pc' = [pc EXCEPT ![c] = next]
        ELSE UNCHANGED <<offer, wire, pc>>
    /\ UNCHANGED <<nick, oldNick, clients, offerVars, hostVars, closed, notices>>

\* case MsgTypeFileAcc / MsgTypeFileRej, lookup: if the cited sender has a
\* pending offer, SendMessage(offer.SenderConn, reply); otherwise the frame
\* is dropped.
ResolveAs(c, n, type, next) ==
    /\ pc[c] = "loop"
    /\ \E senderNick \in Nicks : Read(c, Message(type, n, senderNick, "", ""))
    /\ LET senderNick == msg'[c].Text IN
        IF senderNick \in DOMAIN pendingOffers
        THEN /\ offer' = [offer EXCEPT ![c] = pendingOffers[senderNick]]
             /\ wire' = SendMessage(wire, offer'[c].SenderConn,
                                    Reply(type, nick[c], offer'[c].Filename), c)
             /\ pc' = [pc EXCEPT ![c] = next]
        ELSE UNCHANGED <<offer, wire, pc>>
    /\ UNCHANGED <<nick, oldNick, clients, offerVars, hostVars, closed, notices>>

\* A decision of a client that fills the nick field with its own nickname.
Resolve(c, type, next) == ResolveAs(c, nick[c], type, next)

\* delete(h.pendingOffers, senderNick); OnSystemMessage(...); the local offer
\* goes out of scope.
Resolved(c, at, verb) ==
    /\ pc[c] = at
    /\ pendingOffers' = Delete(pendingOffers, msg[c].Text)
    /\ notices' = notices \cup {nick[c] \o verb \o msg[c].Text}
    /\ offer' = [offer EXCEPT ![c] = NoOffer]
    /\ pc' = [pc EXCEPT ![c] = "loop"]
    /\ UNCHANGED <<nick, msg, oldNick, reads, clients, hostPendingFile, hostVars, netVars>>

FileAcc(c) == Resolve(c, MsgTypeFileAcc, "accepted")

FileAccDelete(c) == Resolved(c, "accepted", " accepted file from ")

FileRej(c) == Resolve(c, MsgTypeFileRej, "rejected")

FileRejDelete(c) == Resolved(c, "rejected", " rejected file from ")

FileAccAs(c, n) == ResolveAs(c, n, MsgTypeFileAcc, "accepted")

FileRejAs(c, n) == ResolveAs(c, n, MsgTypeFileRej, "rejected")

(* ------------- handleClient: file data, signals, ping, list ------------ *)

\* Payloads a client may put in a FileData frame: one that is base64 and one
\* that is not.
Payloads == {"aGk=", "%"}

\* base64.StdEncoding.DecodeString(data) on the payloads above.
DecodeString(data) ==
    IF data = "aGk=" THEN [ok |-> TRUE, bytes |-> "hi"] ELSE [ok |-> FALSE, bytes |-> ""]

\* filepath.Base(filename): the file names of the model have no directory
\* part, and Base returns such a name as it is.
Base(filename) == filename

\* A save that writes the payload as it came, decodable or not.
hostSaveRaw(fs, filename, data) == Put(fs, Base(filename), data)

\* hostSaveFile(filename, data, from): the decoded payload is written under
\* the base name; a payload that does not decode is reported and not written.
hostSaveFile(fs, filename, data) ==
    IF DecodeString(data).ok THEN Put(fs, Base(filename), DecodeString(data).bytes) ELSE fs

\* case MsgTypeFile: routing of the file data by msg.Target.
FileAs(c, n) ==
    /\ pc[c] = "loop"
    /\ \E data \in Payloads, target \in Targets :
         Read(c, Message(MsgTypeFile, n, FileName(reads[c] + 1), data, target))
    /\ LET m == msg'[c]
           fileMsg == Message(MsgTypeFile, nick[c], m.Text, m.Data, "")
       IN  IF m.Target # ""
           THEN IF m.Target = hnick
                THEN /\ saved' = hostSaveFile(saved, m.Text, m.Data)
                     /\ UNCHANGED <<wire, notices>>
                ELSE /\ wire' \in sendToNick(wire, m.Target, fileMsg, c)
                     /\ notices' = notices \cup
                            {nick[c] \o " sent file " \o m.Text \o " to " \o m.Target}
                     /\ UNCHANGED saved
           ELSE /\ saved' = hostSaveFile(saved, m.Text, m.Data)
                /\ wire' = broadcast(wire, fileMsg, c, c)
                /\ notices' = notices \cup {nick[c] \o " shared file " \o m.Text}
    /\ UNCHANGED <<pc, nick, oldNick, offer, clients, offerVars, uiVars, listening, lockVars, signals,
                   closed>>

\* File data of a client that fills the nick field with its own nickname.
File(c) == FileAs(c, nick[c])

\* The payload of a WebRTC frame that is the n-th frame of its connection
\* (the host copies the payload and never reads it).
Signal(n) == "s" \o ToString(n)

\* A relay that forwards the signal under the nickname the frame came with.
WebRTCAsSent(c) ==
    /\ pc[c] = "loop"
    /\ \E n \in Nicks, target \in Targets :
         Read(c, Message(MsgTypeWebRTC, n, "", Signal(reads[c] + 1), target))
    /\ LET m == msg'[c]
       IN  IF m.Target = hnick
           THEN /\ signals' = signals \cup {<<nick[c], m.Data>>}
                /\ UNCHANGED wire
           ELSE /\ wire' \in sendToNick(wire, m.Target, m, c)
                /\ UNCHANGED signals
    /\ UNCHANGED <<pc, nick, oldNick, offer, clients, offerVars, uiVars, listening, lockVars, saved,
                   closed, notices>>

\* case MsgTypeWebRTC: a signal for the host goes to the media manager, any
\* other is forwarded by nickname with Nick set to client.nick.
WebRTC(c) ==
    /\ pc[c] = "loop"
    /\ \E n \in Nicks, target \in Targets :
         Read(c, Message(MsgTypeWebRTC, n, "", Signal(reads[c] + 1), target))
    /\ LET m == msg'[c]
           forwardMsg == Message(MsgTypeWebRTC, nick[c], "", m.Data, m.Target)
       IN  IF m.Target = hnick
           THEN /\ signals' = signals \cup {<<nick[c], m.Data>>}
                /\ UNCHANGED wire
           ELSE /\ wire' \in sendToNick(wire, m.Target, forwardMsg, c)
                /\ UNCHANGED signals
    /\ UNCHANGED <<pc, nick, oldNick, offer, clients, offerVars, uiVars, listening, lockVars, saved,
                   closed, notices>>

\* case MsgTypePing: SendMessage(conn, Message{Type: MsgTypePong}).
\* A Ping answered on every registered connection.
PingAll(c) ==
    /\ pc[c] = "loop"
    /\ Read(c, Message(MsgTypePing, nick[c], "", "", ""))
    /\ wire' = broadcast(wire, Message(MsgTypePong, "", "", "", ""), NilConn, c)
    /\ UNCHANGED <<pc, nick, oldNick, offer, clients, offerVars, hostVars, closed, notices>>

Ping(c) ==
    /\ pc[c] = "loop"
    /\ Read(c, Message(MsgTypePing, nick[c], "", "", ""))
    /\ wire' = SendMessage(wire, c, Message(MsgTypePong, "", "", "", ""), c)
    /\ UNCHANGED <<pc, nick, oldNick, offer, clients, offerVars, hostVars, closed, notices>>

\* strings.Join(names, sep)
RECURSIVE StringsJoin(_, _)
StringsJoin(names, sep) ==
    IF names = <<>> THEN ""
    ELSE IF Len(names) = 1 THEN names[1]
    ELSE names[1] \o sep \o StringsJoin(Tail(names), sep)

\* The orders in which a range over a Go map with the keys S can meet them.
Orders(S) ==
    {f \in [1..Cardinality(S) -> S] : \A x \in S : \E i \in 1..Cardinality(S) : f[i] = x}

\* A user list that names every connection by the nickname it had before its
\* last change.
getUserListStale ==
    {StringsJoin(<<hnick \o " (host)">> \o
                 [i \in 1..Cardinality(clients) |->
                    IF oldNick[order[i]] # "" THEN oldNick[order[i]] ELSE nick[order[i]]],
                 ", ") : order \in Orders(clients)}

\* A user list that names every nickname once, however many connections
\* carry it.
getUserListUnique ==
    LET names == {nick[c] : c \in clients} IN
    {StringsJoin(<<hnick \o " (host)">> \o [i \in 1..Cardinality(names) |-> order[i]],
                 ", ") : order \in Orders(names)}

\* Host.getUserList(), under mutex.RLock: h.nick + " (host)", then client.nick
\* of every registered connection in the order of the map iteration, joined
\* with ", ".  The set of the strings it can return.
getUserList ==
    {StringsJoin(<<hnick \o " (host)">> \o [i \in 1..Cardinality(clients) |-> nick[order[i]]],
                 ", ") : order \in Orders(clients)}

\* case MsgTypeUserList: users := h.getUserList(); SendMessage(conn, ...).
UserList(c) ==
    /\ pc[c] = "loop"
    /\ Read(c, Message(MsgTypeUserList, nick[c], "", "", ""))
    /\ \E users \in getUserList :
         wire' = SendMessage(wire, c, Message(MsgTypeUserList, "", users, "", ""), c)
    /\ UNCHANGED <<pc, nick, oldNick, offer, clients, offerVars, hostVars, closed, notices>>

\* A frame whose Type the switch has no case for: ReadMessage decodes it
\* without error and the loop goes on to the next frame.
Unhandled(c) ==
    /\ pc[c] = "loop"
    /\ \E type \in OtherTypes : Read(c, Message(type, nick[c], "", "", ""))
    /\ UNCHANGED <<pc, nick, oldNick, offer, clients, offerVars, hostVars, netVars, notices>>

\* A Join in the read loop handled like the first one: the nickname of the
\* frame is taken and the join is announced.
LateJoinAnnounced(c) ==
    /\ pc[c] = "loop"
    /\ \E n \in Nicks :
        /\ Read(c, Message(MsgTypeJoin, n, "", "", ""))
        /\ nick' = [nick EXCEPT ![c] = n]
        /\ notices' = notices \cup {n \o " joined"}
        /\ wire' = broadcast(wire, SystemMessage(n \o " joined"), c, c)
    /\ UNCHANGED <<pc, oldNick, offer, clients, offerVars, hostVars, closed>>

\* A Join frame read in the loop, under any nickname: the switch has no case
\* MsgTypeJoin, so the loop goes on to the next frame.
LateJoin(c) ==
    /\ pc[c] = "loop"
    /\ \E n \in Nicks : Read(c, Message(MsgTypeJoin, n, "", "", ""))
    /\ UNCHANGED <<pc, nick, oldNick, offer, clients, offerVars, hostVars, netVars, notices>>

(* ---------------------- handleClient: disconnect ----------------------- *)

\* A disconnect that leaves the registry entry in place.
ReadFailRegistered(c) ==
    /\ pc[c] = "loop"
    /\ CanFail
    /\ pc' = [pc EXCEPT ![c] = "closing"]
    /\ UNCHANGED <<nick, msg, oldNick, offer, reads, clients, offerVars, hostVars, netVars,
                   notices>>

\* A disconnect that empties the registry.
ReadFailAll(c) ==
    /\ pc[c] = "loop"
    /\ CanFail
    /\ clients' = {}
    /\ pc' = [pc EXCEPT ![c] = "closing"]
    /\ UNCHANGED <<nick, msg, oldNick, offer, reads, offerVars, hostVars, netVars, notices>>

\* A disconnect that also drops the offers the connection has made.
ReadFailPurge(c) ==
    /\ pc[c] = "loop"
    /\ CanFail
    /\ clients' = clients \ {c}
    /\ pendingOffers' =
          [n \in {k \in DOMAIN pendingOffers : pendingOffers[k].SenderConn # c} |->
              pendingOffers[n]]
    /\ pc' = [pc EXCEPT ![c] = "closing"]
    /\ UNCHANGED <<nick, msg, oldNick, offer, reads, hostPendingFile, hostVars, netVars,
                   notices>>

\* ReadMessage fails in the loop: break; mutex.Lock; delete(h.clients, conn).
ReadFail(c) ==
    /\ pc[c] = "loop"
    /\ CanFail
    /\ clients' = clients \ {c}
    /\ pc' = [pc EXCEPT ![c] = "closing"]
    /\ UNCHANGED <<nick, msg, oldNick, offer, reads, offerVars, hostVars, netVars, notices>>

\* ReadMessage has read a line that json.Unmarshal rejects: it returns the
\* error, and the handler leaves the loop as for any failed read.
Malformed(c) ==
    /\ pc[c] = "loop"
    /\ CanFail
    /\ Read(c, NoMsg)
    /\ clients' = clients \ {c}
    /\ pc' = [pc EXCEPT ![c] = "closing"]
    /\ UNCHANGED <<nick, oldNick, offer, offerVars, hostVars, netVars, notices>>

\* conn.Close()
Close(c) ==
    /\ pc[c] = "closing"
    /\ closed' = [closed EXCEPT ![c] = TRUE]
    /\ pc' = [pc EXCEPT ![c] = "leaving"]
    /\ UNCHANGED <<nick, msg, oldNick, offer, reads, clients, offerVars, hostVars, wire, notices>>

\* OnSystemMessage("<nick> left"); broadcast(System "<nick> left", nil).
Leave(c) ==
    /\ pc[c] = "leaving"
    /\ notices' = notices \cup {nick[c] \o " left"}
    /\ wire' = broadcast(wire, SystemMessage(nick[c] \o " left"), NilConn, c)
    /\ pc' = [pc EXCEPT ![c] = "done"]
    /\ UNCHANGED <<nick, msg, oldNick, offer, reads, clients, offerVars, hostVars, closed>>

(* ------------------- the registry lock, step by step -------------------- *)

\* h.mutex.Lock() returns when no task holds the lock in either mode;
\* h.mutex.RLock() returns when no task holds it in write mode.
CanLock == mutex = Unlocked

CanRLock == mutex.w = NilConn

\* The handshake up to h.mutex.Lock(): the first ReadMessage returns a Join,
\* the Client is created, the lock is taken.
JoinLock(c) ==
    /\ pc[c] = "connecting"
    /\ CanLock
    /\ \E n \in JoinNicks :
        /\ Read(c, Message(MsgTypeJoin, n, "", "", ""))
        /\ nick' = [nick EXCEPT ![c] = n]
    /\ mutex' = RWMutex(c, {})
    /\ pc' = [pc EXCEPT ![c] = "adding"]
    /\ UNCHANGED <<oldNick, offer, clients, offerVars, uiVars, listening, saved, signals, writeVars,
                   netVars, notices>>

\* h.clients[conn] = client; h.mutex.Unlock().
JoinAdd(c) ==
    /\ pc[c] = "adding"
    /\ clients' = clients \cup {c}
    /\ mutex' = Unlocked
    /\ pc' = [pc EXCEPT ![c] = "announce"]
    /\ UNCHANGED <<nick, msg, oldNick, offer, reads, offerVars, uiVars, listening, saved,
                   signals, writeVars, netVars, notices>>

\* case MsgTypeUserList up to getUserList's h.mutex.RLock().
UserListRLock(c) ==
    /\ pc[c] = "loop"
    /\ CanRLock
    /\ Read(c, Message(MsgTypeUserList, nick[c], "", "", ""))
    /\ mutex' = [mutex EXCEPT !.r = @ \cup {c}]
    /\ pc' = [pc EXCEPT ![c] = "listing"]
    /\ UNCHANGED <<nick, oldNick, offer, clients, offerVars, uiVars, listening, saved,
                   signals, writeVars, netVars, notices>>

\* A snapshot that returns without releasing the lock.
UserListReplyHeld(c) ==
    /\ pc[c] = "listing"
    /\ \E users \in getUserList :
         wire' = SendMessage(wire, c, Message(MsgTypeUserList, "", users, "", ""), c)
    /\ pc' = [pc EXCEPT ![c] = "loop"]
    /\ UNCHANGED <<nick, msg, oldNick, offer, reads, clients, offerVars, hostVars, closed,
                   notices>>

\* getUserList's iteration over h.clients, RUnlock, and the reply.  A
\* nickname written by another handler while the lock was held in read mode
\* is read as it is at this step.
UserListReply(c) ==
    /\ pc[c] = "listing"
    /\ \E users \in getUserList :
         wire' = SendMessage(wire, c, Message(MsgTypeUserList, "", users, "", ""), c)
    /\ mutex' = [mutex EXCEPT !.r = @ \ {c}]
    /\ pc' = [pc EXCEPT ![c] = "loop"]
    /\ UNCHANGED <<nick, msg, oldNick, offer, reads, clients, offerVars, uiVars, listening,
                   saved, signals, writeVars, closed, notices>>

\* ReadMessage fails in the loop: break; h.mutex.Lock().
ReadFailLock(c) ==
    /\ pc[c] = "loop"
    /\ CanFail
    /\ CanLock
    /\ mutex' = RWMutex(c, {})
    /\ pc' = [pc EXCEPT ![c] = "removing"]
    /\ UNCHANGED <<nick, msg, oldNick, offer, reads, clients, offerVars, uiVars, listening,
                   saved, signals, writeVars, netVars, notices>>

\* delete(h.clients, conn); h.mutex.Unlock().
Remove(c) ==
    /\ pc[c] = "removing"
    /\ clients' = clients \ {c}
    /\ mutex' = Unlocked
    /\ pc' = [pc EXCEPT ![c] = "closing"]
    /\ UNCHANGED <<nick, msg, oldNick, offer, reads, offerVars, uiVars, listening, saved,
                   signals, writeVars, netVars, notices>>

(* -------------- the registry lock, with callers that wait --------------- *)

\* The steps below separate the call of Lock from its return, and the read
\* of a frame from the RLock of its dispatch.  A sync.RWMutex gives a Lock
\* that waits precedence over later RLocks: RLock returns when no task holds
\* the lock in write mode and none waits in Lock.

\* The tasks that have called h.mutex.Lock() and wait for it to return.
Waiting ==
    {c \in Conns : pc[c] \in {"joining", "failed"}}
    \cup (IF hpc.at = "locking" THEN {HostTask} ELSE {})

RFree == mutex.w = NilConn /\ Waiting = {}

RLock(t) == mutex' = [mutex EXCEPT !.r = @ \cup {t}]

RUnlock(t) == mutex' = [mutex EXCEPT !.r = @ \ {t}]

\* The first ReadMessage returns a Join; the Client is created; the handler
\* calls h.mutex.Lock().
JoinCall(c) ==
    /\ pc[c] = "connecting"
    /\ \E n \in JoinNicks :
        /\ Read(c, Message(MsgTypeJoin, n, "", "", ""))
        /\ nick' = [nick EXCEPT ![c] = n]
    /\ pc' = [pc EXCEPT ![c] = "joining"]
    /\ UNCHANGED <<oldNick, offer, clients, offerVars, hostVars, netVars, notices>>

\* h.mutex.Lock() returns.
JoinLocked(c) ==
    /\ pc[c] = "joining"
    /\ CanLock
    /\ mutex' = RWMutex(c, {})
    /\ pc' = [pc EXCEPT ![c] = "adding"]
    /\ UNCHANGED <<nick, msg, oldNick, offer, reads, clients, offerVars, uiVars, listening,
                   saved, signals, writeVars, netVars, notices>>

\* OnSystemMessage("<nick> joined"); broadcast's h.mutex.RLock() returns.
AnnounceEnter(c) ==
    /\ pc[c] = "announce"
    /\ RFree
    /\ notices' = notices \cup {nick[c] \o " joined"}
    /\ RLock(c)
    /\ pc' = [pc EXCEPT ![c] = "announcing"]
    /\ UNCHANGED <<nick, msg, oldNick, offer, reads, clients, offerVars, uiVars, listening,
                   saved, signals, writeVars, netVars>>

\* broadcast(System "<nick> joined", conn): the writes, then the deferred
\* RUnlock.
AnnounceLeave(c) ==
    /\ pc[c] = "announcing"
    /\ wire' = broadcast(wire, SystemMessage(nick[c] \o " joined"), c, c)
    /\ RUnlock(c)
    /\ pc' = [pc EXCEPT ![c] = "loop"]
    /\ UNCHANGED <<nick, msg, oldNick, offer, reads, clients, offerVars, uiVars, listening,
                   saved, signals, writeVars, closed, notices>>

\* ReadMessage returns a Chat or a UserList request; the handler is about to
\* call broadcast or getUserList.
ReadLocking(c) ==
    /\ pc[c] = "loop"
    /\ \/ Read(c, Message(MsgTypeMsg, nick[c], Body(reads[c] + 1), "", ""))
       \/ Read(c, Message(MsgTypeUserList, nick[c], "", "", ""))
    /\ pc' = [pc EXCEPT ![c] = "read"]
    /\ UNCHANGED <<nick, oldNick, offer, clients, offerVars, hostVars, netVars, notices>>

\* h.mutex.RLock() returns in broadcast (case MsgTypeMsg) or in getUserList
\* (case MsgTypeUserList).
DispatchEnter(c) ==
    /\ pc[c] = "read"
    /\ RFree
    /\ RLock(c)
    /\ pc' = [pc EXCEPT ![c] = IF msg[c].Type = MsgTypeMsg THEN "chatting" ELSE "listing"]
    /\ UNCHANGED <<nick, msg, oldNick, offer, reads, clients, offerVars, uiVars, listening,
                   saved, signals, writeVars, netVars, notices>>

\* case MsgTypeMsg: broadcast's writes and its deferred RUnlock.
ChatLeave(c) ==
    /\ pc[c] = "chatting"
    /\ wire' = broadcast(wire, Message(MsgTypeMsg, nick[c], msg[c].Text, "", ""), NilConn, c)
    /\ RUnlock(c)
    /\ pc' = [pc EXCEPT ![c] = "loop"]
    /\ UNCHANGED <<nick, msg, oldNick, offer, reads, clients, offerVars, uiVars, listening,
                   saved, signals, writeVars, closed, notices>>

\* case MsgTypeFileOffer with a target that is not the host: h.mutex.RLock()
\* returns in sendToNick or in broadcast.
OfferEnter(c) ==
    /\ pc[c] = "offered"
    /\ msg[c].Target # hnick
    /\ RFree
    /\ RLock(c)
    /\ pc' = [pc EXCEPT ![c] = "routing"]
    /\ UNCHANGED <<nick, msg, oldNick, offer, reads, clients, offerVars, uiVars, listening,
                   saved, signals, writeVars, netVars, notices>>

\* sendToNick's or broadcast's write and deferred RUnlock, and what follows
\* it in the case: the notice of a targeted offer, the host-local record of
\* an offer to everyone.
OfferLeave(c) ==
    /\ pc[c] = "routing"
    /\ LET offerMsg == Message(MsgTypeFileOffer, nick[c], msg[c].Text, msg[c].Data, "")
       IN  IF msg[c].Target # ""
           THEN /\ wire' \in sendToNick(wire, msg[c].Target, offerMsg, c)
                /\ notices' = notices \cup
                       {nick[c] \o " offers " \o msg[c].Text \o " to " \o msg[c].Target}
                /\ UNCHANGED hostPendingFile
           ELSE /\ wire' = broadcast(wire, offerMsg, c, c)
                /\ hostPendingFile' = PendingOffer(nick[c], c, msg[c].Text, "", reads[c])
                /\ UNCHANGED notices
    /\ RUnlock(c)
    /\ pc' = [pc EXCEPT ![c] = "loop"]
    /\ UNCHANGED <<nick, msg, oldNick, offer, reads, clients, pendingOffers, uiVars, listening,
                   saved, signals, writeVars, closed>>

\* ReadMessage fails in the loop: break; the handler calls h.mutex.Lock().
ReadFailCall(c) ==
    /\ pc[c] = "loop"
    /\ CanFail
    /\ pc' = [pc EXCEPT ![c] = "failed"]
    /\ UNCHANGED <<nick, msg, oldNick, offer, reads, clients, offerVars, hostVars, netVars,
                   notices>>

\* h.mutex.Lock() returns.
RemoveLocked(c) ==
    /\ pc[c] = "failed"
    /\ CanLock
    /\ mutex' = RWMutex(c, {})
    /\ pc' = [pc EXCEPT ![c] = "removing"]
    /\ UNCHANGED <<nick, msg, oldNick, offer, reads, clients, offerVars, uiVars, listening,
                   saved, signals, writeVars, netVars, notices>>

\* OnSystemMessage("<nick> left"); broadcast's h.mutex.RLock() returns.
LeaveEnter(c) ==
    /\ pc[c] = "leaving"
    /\ RFree
    /\ notices' = notices \cup {nick[c] \o " left"}
    /\ RLock(c)
    /\ pc' = [pc EXCEPT ![c] = "parting"]
    /\ UNCHANGED <<nick, msg, oldNick, offer, reads, clients, offerVars, uiVars, listening,
                   saved, signals, writeVars, netVars>>

\* broadcast(System "<nick> left", nil): the writes, then the deferred
\* RUnlock; handleClient returns.
LeaveLeave(c) ==
    /\ pc[c] = "parting"
    /\ wire' = broadcast(wire, SystemMessage(nick[c] \o " left"), NilConn, c)
    /\ RUnlock(c)
    /\ pc' = [pc EXCEPT ![c] = "done"]
    /\ UNCHANGED <<nick, msg, oldNick, offer, reads, clients, offerVars, uiVars, listening,
                   saved, signals, writeVars, closed, notices>>

\* Host.Shutdown up to its call of h.mutex.Lock(): listener.Close(),
\* mdnsServer.Shutdown().
ShutdownCall ==
    /\ hpc = Serving
    /\ listening' = FALSE
    /\ mdnsServer' = FALSE
    /\ hpc' = UI("locking", "")
    /\ UNCHANGED <<handlerVars, clients, offerVars, hnick, chatClient, saved, signals,
                   lockVars, netVars, notices>>

\* h.mutex.Lock() returns.
ShutdownLocked ==
    /\ hpc.at = "locking"
    /\ CanLock
    /\ mutex' = RWMutex(HostTask, {})
    /\ hpc' = UI("closing", "")
    /\ UNCHANGED <<handlerVars, clients, offerVars, hnick, mdnsServer, chatClient, listening,
                   saved, signals, writeVars, netVars, notices>>

\* for conn := range h.clients { SendMessage(conn, System "Room closed by
\* host"); conn.Close() }; h.mutex.Unlock().
ShutdownClose ==
    /\ hpc.at = "closing"
    /\ wire' = broadcast(wire, SystemMessage("Room closed by host"), NilConn, HostTask)
    /\ closed' = [c \in Conns |-> closed[c] \/ c \in clients]
    /\ mutex' = Unlocked
    /\ hpc' = UI("closed", "")
    /\ UNCHANGED <<handlerVars, clients, offerVars, hnick, mdnsServer, chatClient, listening,
                   saved, signals, writeVars, notices>>

(* ------------------ writes on a connection, piece by piece --------------- *)

\* SendMessage is one fmt.Fprintf(conn, "%s\n", data), which formats the
\* frame and its newline into one buffer and calls conn.Write once.  Write
\* holds the connection's write lock until the connection has taken the
\* whole buffer, which it may take in pieces; a frame is modelled as two
\* pieces.  No connection is closed in the runs that use these steps.

\* Piece `part` of frame m, written by task `by`.
Piece(m, by, part) == [m |-> m, by |-> by, part |-> part]

\* Task t starts sending frame m to the connections of `to`, under RLock if
\* rl.  With nobody to send to, the section is over at once.
StartSend(t, m, to, rl) ==
    IF to = {}
    THEN UNCHANGED <<out, mutex>>
    ELSE /\ out' = [out EXCEPT ![t] = Sending(m, to, NilConn, rl)]
         /\ mutex' = IF rl THEN [mutex EXCEPT !.r = @ \cup {t}] ELSE mutex

\* Where handler c goes after StartSend: into the sending, or on to its loop.
AfterStart(c, to) == IF to = {} THEN "loop" ELSE "sending"

\* The join notice, up to broadcast's h.mutex.RLock().
AnnounceRLock(c) ==
    /\ pc[c] = "announce"
    /\ CanRLock
    /\ notices' = notices \cup {nick[c] \o " joined"}
    /\ StartSend(c, SystemMessage(nick[c] \o " joined"), clients \ {c}, TRUE)
    /\ pc' = [pc EXCEPT ![c] = AfterStart(c, clients \ {c})]
    /\ UNCHANGED <<nick, msg, oldNick, offer, reads, clients, offerVars, uiVars, listening,
                   saved, signals, fdmu, stream, netVars>>

\* case MsgTypeMsg, up to broadcast's h.mutex.RLock().
ChatRLock(c) ==
    /\ pc[c] = "loop"
    /\ CanRLock
    /\ Read(c, Message(MsgTypeMsg, nick[c], Body(reads[c] + 1), "", ""))
    /\ StartSend(c, Message(MsgTypeMsg, nick[c], msg'[c].Text, "", ""), clients, TRUE)
    /\ pc' = [pc EXCEPT ![c] = AfterStart(c, clients)]
    /\ UNCHANGED <<nick, oldNick, offer, clients, offerVars, uiVars, listening, saved,
                   signals, fdmu, stream, netVars, notices>>

\* case MsgTypePing: SendMessage(conn, Pong), with no registry lock.
PingReply(c) ==
    /\ pc[c] = "loop"
    /\ Read(c, Message(MsgTypePing, nick[c], "", "", ""))
    /\ StartSend(c, Message(MsgTypePong, "", "", "", ""), {c}, FALSE)
    /\ pc' = [pc EXCEPT ![c] = "sending"]
    /\ UNCHANGED <<nick, oldNick, offer, clients, offerVars, uiVars, listening, saved,
                   signals, fdmu, stream, netVars, notices>>

\* The chat lines the host's user has typed so far.
Said ==
    UNION {{stream[c][i].m.Text : i \in {j \in DOMAIN stream[c] : stream[c][j].by = HostTask}} :
             c \in Conns} \cup
    (IF out[HostTask] = NotSending THEN {} ELSE {out[HostTask].m.Text})

\* SendText with a line that is no command: broadcast(Message{msg, h.nick,
\* text}, nil) on the UI goroutine.
Say ==
    /\ out[HostTask] = NotSending
    /\ clients # {}
    /\ CanRLock
    /\ Cardinality(Said) < MaxSays
    /\ StartSend(HostTask,
                 Message(MsgTypeMsg, hnick, "s" \o ToString(Cardinality(Said) + 1), "", ""),
                 clients, TRUE)
    /\ UNCHANGED <<handlerVars, clients, offerVars, uiVars, listening, saved, signals, fdmu,
                   stream, netVars, notices>>

\* A conn.Write that starts without taking the connection's write lock.
WriteHeadUnlocked(t) ==
    /\ out[t].todo # {} /\ out[t].cur = NilConn
    /\ \E conn \in out[t].todo :
        /\ stream' = [stream EXCEPT ![conn] = Append(@, Piece(out[t].m, t, 1))]
        /\ out' = [out EXCEPT ![t].cur = conn]
    /\ UNCHANGED <<handlerVars, clients, offerVars, uiVars, listening, saved, signals, mutex,
                   fdmu, netVars, notices>>

\* The next SendMessage of the sending: conn.Write takes the write lock of a
\* connection still to be written (the map iteration meets them in any
\* order) and the connection takes the first piece of the frame.
WriteHead(t) ==
    /\ out[t].todo # {} /\ out[t].cur = NilConn
    /\ \E conn \in out[t].todo :
        /\ fdmu[conn] = NilConn
        /\ fdmu' = [fdmu EXCEPT ![conn] = t]
        /\ stream' = [stream EXCEPT ![conn] = Append(@, Piece(out[t].m, t, 1))]
        /\ out' = [out EXCEPT ![t].cur = conn]
    /\ UNCHANGED <<handlerVars, clients, offerVars, uiVars, listening, saved, signals, mutex,
                   netVars, notices>>

\* The connection takes the rest of the frame and conn.Write releases the
\* write lock.  After the last connection the task leaves the section
\* (RUnlock) and a handler goes back to its read loop.
WriteTail(t) ==
    /\ out[t].cur # NilConn
    /\ LET conn == out[t].cur
           rest == out[t].todo \ {conn}
       IN  /\ stream' = [stream EXCEPT ![conn] = Append(@, Piece(out[t].m, t, 2))]
           /\ fdmu' = [fdmu EXCEPT ![conn] = NilConn]
           /\ IF rest = {}
              THEN /\ out' = [out EXCEPT ![t] = NotSending]
                   /\ mutex' = [mutex EXCEPT !.r = @ \ {t}]
                   /\ pc' = [c \in Conns |-> IF c = t THEN "loop" ELSE pc[c]]
              ELSE /\ out' = [out EXCEPT ![t].todo = rest, ![t].cur = NilConn]
                   /\ UNCHANGED <<mutex, pc>>
    /\ UNCHANGED <<nick, msg, oldNick, offer, reads, clients, offerVars, uiVars, listening,
                   saved, signals, netVars, notices>>

(* ----------------------------- SendText -------------------------------- *)

\* SendText("/accept") and SendText("/reject") on the UI goroutine: if
\* h.hostPendingFile != nil, SendMessage(h.hostPendingFile.SenderConn, reply)
\* and h.hostPendingFile = nil.
HostDecide(type) ==
    /\ hostPendingFile # NoOffer
    /\ wire' = SendMessage(wire, hostPendingFile.SenderConn,
                           Reply(type, hnick, hostPendingFile.Filename), HostTask)
    /\ hostPendingFile' = NoOffer
    /\ UNCHANGED <<handlerVars, clients, pendingOffers, hostVars, closed, notices>>

HostAccept == HostDecide(MsgTypeFileAcc)

HostReject == HostDecide(MsgTypeFileRej)

\* Nicknames the host may take with SendText("/nick ...").
HostNicks == {HostNick0} \cup Nicks

\* SendText("/nick n"): oldNick := h.nick; h.nick = n (the registry lock is
\* not taken); sysMsg is built from both.
HostRename ==
    /\ hpc = Serving
    /\ \E n \in HostNicks \ {hnick} :
        /\ hnick' = n
        /\ hpc' = UI("renamed", hnick)
    /\ UNCHANGED <<handlerVars, clients, offerVars, mdnsServer, chatClient, listening, saved,
                   signals, lockVars, netVars, notices>>

\* SendText("/nick n"), the rest: h.broadcast(System "<old> is now known as
\* <new>", nil).
HostRenameNotice ==
    /\ hpc.at = "renamed"
    /\ wire' = broadcast(wire, SystemMessage(hpc.oldNick \o " is now known as " \o hnick),
                         NilConn, HostTask)
    /\ hpc' = Serving
    /\ UNCHANGED <<handlerVars, clients, offerVars, hnick, mdnsServer, chatClient, listening,
                   saved, signals, lockVars, closed, notices>>

\* SendText("/accept") and SendText("/reject") statement by statement, none
\* of them under the registry lock.  First the test h.hostPendingFile != nil
\* and SendMessage(h.hostPendingFile.SenderConn, reply).
HostDecideSend(type) ==
    /\ hpc = Serving
    /\ hostPendingFile # NoOffer
    /\ wire' = SendMessage(wire, hostPendingFile.SenderConn,
                           Reply(type, hnick, hostPendingFile.Filename), HostTask)
    /\ hpc' = UI("decided", "")
    /\ UNCHANGED <<handlerVars, clients, offerVars, hnick, mdnsServer, chatClient, listening,
                   saved, signals, lockVars, closed, notices>>

\* Then h.hostPendingFile = nil.
HostDecideClear ==
    /\ hpc.at = "decided"
    /\ hostPendingFile' = NoOffer
    /\ hpc' = Serving
    /\ UNCHANGED <<handlerVars, clients, pendingOffers, hnick, mdnsServer, chatClient,
                   listening, saved, signals, lockVars, netVars, notices>>

(* ------------------------------- Start -------------------------------- *)

\* Host.Start, first statement: StartMDNSAdvertisement().  zeroconf.Register
\* returns a running server, kept in h.mdnsServer, or an error, which Start
\* prints and goes on.
StartAdvertise ==
    /\ hpc = UI("new", "")
    /\ mdnsServer' \in BOOLEAN
    /\ hpc' = UI("advertised", "")
    /\ UNCHANGED <<handlerVars, clients, offerVars, hnick, chatClient, listening, saved,
                   signals, lockVars, netVars, notices>>

\* Host.Start, the rest: net.Listen(":port").  On an error Start returns it
\* at once; otherwise h.listener is set, `go h.acceptConnections()` runs and
\* Start returns nil.
StartListen ==
    /\ hpc = UI("advertised", "")
    /\ \E err \in BOOLEAN :
        IF err
        THEN hpc' = UI("failed", "") /\ UNCHANGED listening
        ELSE hpc' = Serving /\ listening' = TRUE
    /\ UNCHANGED <<handlerVars, clients, offerVars, hnick, mdnsServer, chatClient, saved,
                   signals, lockVars, netVars, notices>>

(* ------------------------------ Shutdown ------------------------------- *)

\* A shutdown that closes the registered connections before it writes the
\* notice.
ShutdownSilent ==
    /\ listening' = FALSE
    /\ mdnsServer' = FALSE
    /\ closed' = [c \in Conns |-> closed[c] \/ c \in clients]
    /\ UNCHANGED <<handlerVars, clients, offerVars, hnick, hpc, chatClient, saved, signals,
                   lockVars, notices, wire>>

\* Host.Shutdown: listener.Close(); mdnsServer.Shutdown(); under mutex.Lock,
\* for every registered connection SendMessage(System "Room closed by host")
\* and conn.Close().
Shutdown ==
    /\ listening' = FALSE
    /\ mdnsServer' = FALSE
    /\ wire' = broadcast(wire, SystemMessage("Room closed by host"), NilConn, HostTask)
    /\ closed' = [c \in Conns |-> closed[c] \/ c \in clients]
    /\ UNCHANGED <<handlerVars, clients, offerVars, hnick, hpc, chatClient, saved, signals,
                   lockVars, notices>>

(* ----------------------------- client.go ------------------------------ *)

\* NewChatClient's nick argument, and the nicknames of the others in the room.
ClientNick == "a"

Peers == {"b", HostNick0}

\* An entry of ChatClient.log: frame m read from the connection ("in") or
\* written on it ("out").
In(m) == [dir |-> "in", msg |-> m]

Out(m) == [dir |-> "out", msg |-> m]

\* The entries of a log in one direction with one message type.
Events(log, dir, type) ==
    {i \in DOMAIN log : log[i].dir = dir /\ log[i].msg.Type = type}

\* base64.StdEncoding.EncodeToString(data) on the one file content of the
\* model.
EncodeToString(data) == IF data = "hi" THEN "aGk=" ELSE ""

\* sendFileOffer(path, target) up to its SendMessage: os.Stat succeeds on a
\* file of two bytes, the FileOffer frame is written.  The n-th offer is of
\* the file FileName(n).
ClientOffer ==
    /\ chatClient.offering = ""
    /\ \E target \in {"", "b"} :
        LET path == FileName(Cardinality(Events(chatClient.log, "out", MsgTypeFileOffer)) + 1)
        IN  chatClient' =
                [chatClient EXCEPT
                    !.log = Append(@, Out(Message(MsgTypeFileOffer, ClientNick, Base(path),
                                                  "2B", target))),
                    !.offering = path]
    /\ UNCHANGED <<handlerVars, clients, offerVars, hnick, hpc, mdnsServer, listening, saved,
                   signals, lockVars, netVars, notices>>

\* sendFileOffer, the rest: c.lastOfferedFile = path (no lock is taken; the
\* receive loop runs on another goroutine).
ClientOfferTrack ==
    /\ chatClient.offering # ""
    /\ chatClient' = [chatClient EXCEPT !.lastOfferedFile = chatClient.offering,
                                        !.offering = ""]
    /\ UNCHANGED <<handlerVars, clients, offerVars, hnick, hpc, mdnsServer, listening, saved,
                   signals, lockVars, netVars, notices>>

\* Frames the host may write on the client's connection: chat lines at any
\* time, a FileAccept or FileReject once the client has sent an offer.
Inbound ==
    {Message(MsgTypeMsg, n, "hello", "", "") : n \in Peers}
    \cup IF Events(chatClient.log, "out", MsgTypeFileOffer) = {} THEN {}
         ELSE {Reply(type, n, ""): type \in {MsgTypeFileAcc, MsgTypeFileRej}, n \in Peers}

\* sendActualFile(path, target): os.ReadFile(path) fails and nothing is
\* written, or the FileData frame with the encoded content is.
sendActualFile(log, path, target) ==
    {log, Append(log, Out(Message(MsgTypeFile, ClientNick, Base(path),
                                  EncodeToString("hi"), target)))}

\* receiveLoop: ReadMessage returns frame m.  case MsgTypeFileAcc: if
\* c.lastOfferedFile != "", sendActualFile(c.lastOfferedFile, msg.Nick);
\* case MsgTypeFileRej: c.lastOfferedFile = ""; the other cases hand the
\* frame to a callback.
ClientRecv ==
    /\ chatClient.loop = "recv"
    /\ \E m \in Inbound :
        LET read == Append(chatClient.log, In(m)) IN
        IF m.Type = MsgTypeFileAcc /\ chatClient.lastOfferedFile # ""
        THEN \E l \in sendActualFile(read, chatClient.lastOfferedFile, m.Nick) :
                chatClient' = [chatClient EXCEPT !.log = l, !.loop = "clearing"]
        ELSE IF m.Type = MsgTypeFileRej
        THEN chatClient' = [chatClient EXCEPT !.log = read, !.lastOfferedFile = ""]
        ELSE chatClient' = [chatClient EXCEPT !.log = read]
    /\ UNCHANGED <<handlerVars, clients, offerVars, hnick, hpc, mdnsServer, listening, saved,
                   signals, lockVars, netVars, notices>>

\* case MsgTypeFileAcc, after sendActualFile: c.lastOfferedFile = "".
ClientClear ==
    /\ chatClient.loop = "clearing"
    /\ chatClient' = [chatClient EXCEPT !.lastOfferedFile = "", !.loop = "recv"]
    /\ UNCHANGED <<handlerVars, clients, offerVars, hnick, hpc, mdnsServer, listening, saved,
                   signals, lockVars, netVars, notices>>

\* A receive loop that reports a failed read and goes on reading.
ClientRecvFailRetry ==
    /\ chatClient.loop = "recv"
    /\ chatClient.lost < 2
    /\ chatClient' = [chatClient EXCEPT !.lost = @ + 1]
    /\ UNCHANGED <<handlerVars, clients, offerVars, hnick, hpc, mdnsServer, listening, saved,
                   signals, lockVars, netVars, notices>>

\* receiveLoop: ReadMessage returns an error; OnConnectionLost() is called
\* and the loop returns.
ClientRecvFail ==
    /\ chatClient.loop = "recv"
    /\ chatClient' = [chatClient EXCEPT !.lost = @ + 1, !.loop = "stopped"]
    /\ UNCHANGED <<handlerVars, clients, offerVars, hnick, hpc, mdnsServer, listening, saved,
                   signals, lockVars, netVars, notices>>

(* ------------------------------- Next ---------------------------------- *)

\* Session lifecycle and chat relay.
Next ==
    \/ \E c \in Conns : Accept(c)
    \/ \E c \in Conns : Budget(MaxReads) /\ Join(c)
    \/ \E c \in Conns : Budget(MaxReads) /\ RefuseFirst(c)
    \/ \E c \in Conns : Announce(c)
    \/ \E c \in Conns : Budget(MaxReads) /\ Chat(c)
    \/ \E c \in Conns : ReadFail(c)
    \/ \E c \in Conns : Close(c)
    \/ \E c \in Conns : Leave(c)

Spec == Init /\ [][Next]_vars

\* No handshake is in progress.
Settled == \A c \in Conns : pc[c] \notin {"connecting", "adding", "announce"}

\* Session lifecycle, file offers and the host's decision.  In SpecOffer and
\* SpecResolve a handshake (accept, Join, join notice) runs without other
\* goroutines in between: their runs are those in which the parties of a file
\* transfer have entered the room before a step of the transfer is taken.
NextOffer ==
    \/ \E c \in Conns : Settled /\ Accept(c)
    \/ \E c \in Conns : Budget(MaxReads) /\ Join(c)
    \/ \E c \in Conns : Announce(c)
    \/ \E c \in Conns : Settled /\ Budget(MaxReads) /\ FileOffer(c)
    \/ \E c \in Conns : Settled /\ OfferRoute(c)
    \/ \E c \in Conns : Settled /\ ReadFail(c)
    \/ \E c \in Conns : Settled /\ Close(c)
    \/ \E c \in Conns : Settled /\ Leave(c)
    \/ Settled /\ HostAccept
    \/ Settled /\ HostReject

SpecOffer == Init /\ [][NextOffer]_vars

\* File offers and their resolution by FileAccept / FileReject, with
\* nickname changes, between the connections of ResolveConns.
NextResolve ==
    \/ \E c \in ResolveConns : Settled /\ Accept(c)
    \/ \E c \in Conns : Budget(MaxResolveReads) /\ Join(c)
    \/ \E c \in Conns : Announce(c)
    \/ \E c \in Conns : Settled /\ Budget(MaxResolveReads) /\ NickChange(c)
    \/ \E c \in Conns : Settled /\ NickNotice(c)
    \/ \E c \in Conns : Settled /\ Budget(MaxResolveReads) /\ FileOffer(c)
    \/ \E c \in Conns : Settled /\ OfferRoute(c)
    \/ \E c \in Conns : Settled /\ Budget(MaxResolveReads) /\ FileAcc(c)
    \/ \E c \in Conns : Settled /\ FileAccDelete(c)
    \/ \E c \in Conns : Settled /\ Budget(MaxResolveReads) /\ FileRej(c)
    \/ \E c \in Conns : Settled /\ FileRejDelete(c)

SpecResolve == Init /\ [][NextResolve]_vars

\* Session lifecycle and file data.
NextFile ==
    \/ \E c \in Conns : Settled /\ Accept(c)
    \/ \E c \in Conns : Budget(MaxFileReads) /\ Join(c)
    \/ \E c \in Conns : Announce(c)
    \/ \E c \in Conns : Settled /\ Budget(MaxFileReads) /\ File(c)
    \/ \E c \in Conns : Settled /\ ReadFail(c)
    \/ \E c \in Conns : Settled /\ Close(c)
    \/ \E c \in Conns : Settled /\ Leave(c)

SpecFile == Init /\ [][NextFile]_vars

\* Session lifecycle and signals.
NextSignal ==
    \/ \E c \in Conns : Settled /\ Accept(c)
    \/ \E c \in Conns : Budget(MaxSignalReads) /\ Join(c)
    \/ \E c \in Conns : Announce(c)
    \/ \E c \in Conns : Settled /\ Budget(MaxSignalReads) /\ WebRTC(c)
    \/ \E c \in Conns : Settled /\ ReadFail(c)
    \/ \E c \in Conns : Settled /\ Close(c)
    \/ \E c \in Conns : Settled /\ Leave(c)

SpecSignal == Init /\ [][NextSignal]_vars

\* Session lifecycle, nickname changes, pings, user lists and frames the
\* host does not handle or cannot decode.
NextList ==
    \/ \E c \in Conns : Accept(c)
    \/ \E c \in Conns : Budget(MaxListReads) /\ Join(c)
    \/ \E c \in Conns : Announce(c)
    \/ \E c \in Conns : Budget(MaxListReads) /\ NickChange(c)
    \/ \E c \in Conns : NickNotice(c)
    \/ \E c \in Conns : Budget(MaxListReads) /\ Ping(c)
    \/ \E c \in Conns : Budget(MaxListReads) /\ UserList(c)
    \/ \E c \in Conns : Budget(MaxListReads) /\ Unhandled(c)
    \/ \E c \in Conns : Budget(MaxListReads) /\ LateJoin(c)
    \/ \E c \in Conns : Budget(MaxListReads) /\ Malformed(c)
    \/ \E c \in Conns : Close(c)
    \/ \E c \in Conns : Leave(c)

SpecList == Init /\ [][NextList]_vars

\* Failed reads, frames that do not decode and writes on closed connections,
\* among file offers and the host's decision.
NextError ==
    \/ \E c \in Conns : Settled /\ Accept(c)
    \/ \E c \in Conns : Budget(MaxErrorReads) /\ Join(c)
    \/ \E c \in Conns : Announce(c)
    \/ \E c \in Conns : Settled /\ Budget(MaxErrorReads) /\ FileOffer(c)
    \/ \E c \in Conns : Settled /\ OfferRoute(c)
    \/ \E c \in Conns : Settled /\ ReadFail(c)
    \/ \E c \in Conns : Settled /\ Budget(MaxErrorReads) /\ Malformed(c)
    \/ \E c \in Conns : Settled /\ Close(c)
    \/ \E c \in Conns : Settled /\ Leave(c)
    \/ Settled /\ HostAccept

SpecError == Init /\ [][NextError]_vars

\* The registry lock taken and released in steps of their own: handshake,
\* nickname changes, user lists, file offers and their acceptance, failed
\* reads.  The sections of broadcast and sendToNick run in one step, at a
\* moment when RLock returns.
NextLock ==
    \/ \E c \in Conns : Settled /\ Accept(c)
    \/ \E c \in Conns : Budget(MaxLockReads) /\ JoinLock(c)
    \/ \E c \in Conns : JoinAdd(c)
    \/ \E c \in Conns : CanRLock /\ Announce(c)
    \/ \E c \in Conns : Settled /\ Budget(MaxLockReads) /\ NickChange(c)
    \/ \E c \in Conns : Settled /\ CanRLock /\ NickNotice(c)
    \/ \E c \in Conns : Settled /\ Budget(MaxLockReads) /\ UserListRLock(c)
    \/ \E c \in Conns : UserListReply(c)
    \/ \E c \in Conns : Settled /\ Budget(MaxLockReads) /\ FileOffer(c)
    \/ \E c \in Conns : Settled /\ CanRLock /\ OfferRoute(c)
    \/ \E c \in Conns : Settled /\ Budget(MaxLockReads) /\ FileAcc(c)
    \/ \E c \in Conns : Settled /\ FileAccDelete(c)
    \/ \E c \in Conns : Settled /\ ReadFailLock(c)
    \/ \E c \in Conns : Remove(c)
    \/ \E c \in Conns : Settled /\ Close(c)
    \/ \E c \in Conns : Settled /\ CanRLock /\ Leave(c)

SpecLock == Init /\ [][NextLock]_vars

\* Join notices, chat lines of participants and of the host, and pongs,
\* written piece by piece.
NextWrite ==
    \/ \E c \in WriteConns : Accept(c)
    \/ \E c \in Conns : Budget(MaxWriteReads) /\ CanLock /\ Join(c)
    \/ \E c \in Conns : AnnounceRLock(c)
    \/ \E c \in Conns : Budget(MaxWriteReads) /\ ChatRLock(c)
    \/ \E c \in Conns : Budget(MaxWriteReads) /\ PingReply(c)
    \/ Say
    \/ \E t \in Tasks : WriteHead(t)
    \/ \E t \in Tasks : WriteTail(t)

SpecWrite == Init /\ [][NextWrite]_vars

\* Session lifecycle, chat relay and the host's shutdown.
NextShutdown ==
    \/ \E c \in Conns : Accept(c)
    \/ \E c \in Conns : Budget(MaxShutdownReads) /\ Join(c)
    \/ \E c \in Conns : Announce(c)
    \/ \E c \in Conns : Settled /\ Budget(MaxShutdownReads) /\ Chat(c)
    \/ \E c \in Conns : Settled /\ ReadFail(c)
    \/ \E c \in Conns : Settled /\ Close(c)
    \/ \E c \in Conns : Settled /\ Leave(c)
    \/ Shutdown

SpecShutdown == Init /\ [][NextShutdown]_vars

\* The broadcasts that leave out their originator: join notices, nickname
\* notices, file offers and file data.
NextBroadcast ==
    \/ \E c \in Conns : Settled /\ Accept(c)
    \/ \E c \in Conns : Budget(MaxBroadcastReads) /\ Join(c)
    \/ \E c \in Conns : Announce(c)
    \/ \E c \in Conns : Settled /\ Budget(MaxBroadcastReads) /\ NickChange(c)
    \/ \E c \in Conns : Settled /\ NickNotice(c)
    \/ \E c \in Conns : Settled /\ Budget(MaxBroadcastReads) /\ FileOffer(c)
    \/ \E c \in Conns : Settled /\ OfferRoute(c)
    \/ \E c \in Conns : Settled /\ Budget(MaxBroadcastReads) /\ File(c)

SpecBroadcast == Init /\ [][NextBroadcast]_vars

\* File offers, their resolution and disconnects.
NextOrphan ==
    \/ \E c \in Conns : Settled /\ Accept(c)
    \/ \E c \in Conns : Budget(MaxOrphanReads) /\ Join(c)
    \/ \E c \in Conns : Announce(c)
    \/ \E c \in Conns : Settled /\ Budget(MaxOrphanReads) /\ FileOffer(c)
    \/ \E c \in Conns : Settled /\ OfferRoute(c)
    \/ \E c \in Conns : Settled /\ Budget(MaxOrphanReads) /\ FileAcc(c)
    \/ \E c \in Conns : Settled /\ FileAccDelete(c)
    \/ \E c \in Conns : Settled /\ Budget(MaxOrphanReads) /\ FileRej(c)
    \/ \E c \in Conns : Settled /\ FileRejDelete(c)
    \/ \E c \in Conns : Settled /\ ReadFail(c)
    \/ \E c \in Conns : Settled /\ Close(c)
    \/ \E c \in Conns : Settled /\ Leave(c)

SpecOrphan == Init /\ [][NextOrphan]_vars

\* Frames the UI goroutine has written.
HostFrames ==
    Sum([c \in Conns |-> Cardinality({i \in DOMAIN wire[c] : wire[c][i].by = HostTask})],
        Conns)

\* File offers against the commands of the host's user: nickname changes,
\* /accept and /reject, each statement that touches h.nick or
\* h.hostPendingFile a step of its own, the handshake with the registry
\* lock taken and released as in SpecLock.
NextHost ==
    \/ \E c \in Conns : Settled /\ Accept(c)
    \/ \E c \in Conns : Budget(MaxHostReads) /\ JoinLock(c)
    \/ \E c \in Conns : JoinAdd(c)
    \/ \E c \in Conns : CanRLock /\ Announce(c)
    \/ \E c \in Conns : Settled /\ Budget(MaxHostReads) /\ FileOffer(c)
    \/ \E c \in Conns : Settled /\ CanRLock /\ OfferRoute(c)
    \/ Settled /\ HostFrames < MaxHostFrames /\ HostRename
    \/ CanRLock /\ HostRenameNotice
    \/ Settled /\ HostFrames < MaxHostFrames /\ HostDecideSend(MsgTypeFileAcc)
    \/ Settled /\ HostFrames < MaxHostFrames /\ HostDecideSend(MsgTypeFileRej)
    \/ HostDecideClear

SpecHost == Init /\ [][NextHost]_vars

\* Start and Shutdown around the life of a room.  Shutdown is called once
\* Start has returned, with nil or with an error.
NextStart ==
    \/ StartAdvertise
    \/ StartListen
    \/ \E c \in Conns : Accept(c)
    \/ \E c \in Conns : Budget(MaxStartReads) /\ Join(c)
    \/ \E c \in Conns : Announce(c)
    \/ \E c \in Conns : Settled /\ Budget(MaxStartReads) /\ Chat(c)
    \/ \E c \in Conns : Settled /\ ReadFail(c)
    \/ \E c \in Conns : Settled /\ Close(c)
    \/ \E c \in Conns : Settled /\ Leave(c)
    \/ hpc.at \in {"serving", "failed"} /\ Shutdown

SpecStart == NewHost /\ [][NextStart]_vars

\* File offers and the decisions on them, of participants and of the host's
\* user.
NextDecide ==
    \/ \E c \in Conns : Settled /\ Accept(c)
    \/ \E c \in Conns : Budget(MaxDecideReads) /\ Join(c)
    \/ \E c \in Conns : Announce(c)
    \/ \E c \in Conns : Settled /\ Budget(MaxDecideReads) /\ FileOffer(c)
    \/ \E c \in Conns : Settled /\ OfferRoute(c)
    \/ \E c \in Conns : Settled /\ Budget(MaxDecideReads) /\ FileAcc(c)
    \/ \E c \in Conns : Settled /\ FileAccDelete(c)
    \/ \E c \in Conns : Settled /\ Budget(MaxDecideReads) /\ FileRej(c)
    \/ \E c \in Conns : Settled /\ FileRejDelete(c)
    \/ Settled /\ HostAccept
    \/ Settled /\ HostReject

SpecDecide == Init /\ [][NextDecide]_vars

\* What the environment decides: a client connects, sends a frame or goes
\* away, the host's user quits.
InputLive ==
    \/ \E c \in LiveConns : Accept(c)
    \/ \E c \in Conns : Budget(MaxLiveReads) /\ JoinCall(c)
    \/ \E c \in Conns : Budget(MaxLiveReads) /\ ReadLocking(c)
    \/ \E c \in Conns : Budget(MaxLiveReads) /\ FileOffer(c)
    \/ \E c \in Conns : ReadFailCall(c)
    \/ ShutdownCall

\* What the host's goroutines do next on their own: take the registry lock
\* when it is free for them, run the section, release it, go on.
ProgressLive ==
    \/ \E c \in Conns : JoinLocked(c)
    \/ \E c \in Conns : JoinAdd(c)
    \/ \E c \in Conns : AnnounceEnter(c)
    \/ \E c \in Conns : AnnounceLeave(c)
    \/ \E c \in Conns : DispatchEnter(c)
    \/ \E c \in Conns : ChatLeave(c)
    \/ \E c \in Conns : UserListReply(c)
    \/ \E c \in Conns : msg[c].Target = hnick /\ OfferRoute(c)
    \/ \E c \in Conns : OfferEnter(c)
    \/ \E c \in Conns : OfferLeave(c)
    \/ \E c \in Conns : RemoveLocked(c)
    \/ \E c \in Conns : Remove(c)
    \/ \E c \in Conns : Close(c)
    \/ \E c \in Conns : LeaveEnter(c)
    \/ \E c \in Conns : LeaveLeave(c)
    \/ ShutdownLocked
    \/ ShutdownClose

\* Every operation that takes the registry lock, with the call of the lock
\* and its return as separate steps.
NextLive == InputLive \/ ProgressLive

\* The goroutines are scheduled and connection writes complete: a step the
\* host can take on its own is eventually taken.
SpecLive == Init /\ [][NextLive]_vars /\ WF_vars(ProgressLive)

\* Chat lines, file offers, decisions and file data whose nick field is any
\* nickname, the sender's own or not.
NextSender ==
    \/ \E c \in Conns : Settled /\ Accept(c)
    \/ \E c \in Conns : Budget(MaxSenderReads) /\ Join(c)
    \/ \E c \in Conns : Announce(c)
    \/ \E c \in Conns, n \in Nicks : Settled /\ Budget(MaxSenderReads) /\ ChatAs(c, n)
    \/ \E c \in Conns, n \in Nicks : Settled /\ Budget(MaxSenderReads) /\ FileOfferAs(c, n)
    \/ \E c \in Conns : Settled /\ OfferRoute(c)
    \/ \E c \in Conns, n \in Nicks : Settled /\ Budget(MaxSenderReads) /\ FileAccAs(c, n)
    \/ \E c \in Conns : Settled /\ FileAccDelete(c)
    \/ \E c \in Conns, n \in Nicks : Settled /\ Budget(MaxSenderReads) /\ FileRejAs(c, n)
    \/ \E c \in Conns : Settled /\ FileRejDelete(c)
    \/ \E c \in Conns, n \in Nicks : Settled /\ Budget(MaxSenderReads) /\ FileAs(c, n)

SpecSender == Init /\ [][NextSender]_vars

\* Fewer than MaxClientEvents frames have gone through the client.
ClientBudget == Len(chatClient.log) < MaxClientEvents - 1

\* A client program: its UI goroutine offers files, its receive loop reads
\* what the host writes.
NextClient ==
    \/ ClientBudget /\ ClientOffer
    \/ ClientOfferTrack
    \/ ClientBudget /\ ClientRecv
    \/ ClientClear
    \/ ClientRecvFail

SpecClient == Init /\ [][NextClient]_vars

(* ======================= properties of Spec ============================ *)

\* The connection is in the registry and the host has not closed it.
Live(c) == c \in clients /\ ~closed[c]

\* An entry of wire: frame m written by task `by`.
Frame(m, by) == [msg |-> m, by |-> by]

\* The step is one in which handler c reads a frame of the given type in its
\* read loop.
Dispatches(c, type) ==
    /\ pc[c] = "loop"
    /\ reads'[c] = reads[c] + 1
    /\ msg'[c].Type = type

IsPrefix(a, b) == Len(a) <= Len(b) /\ SubSeq(b, 1, Len(a)) = a

\* The Chat frames written by handler s among the entries of w.
ChatsBy(s, w) == SelectSeq(w, LAMBDA e : e.by = s /\ e.msg.Type = MsgTypeMsg)

\* The frame the host relays for the Chat frame handler s has just read.
RelayedChat(s) == Frame(Message(MsgTypeMsg, nick[s], msg'[s].Text, "", ""), s)

C2_OnePerFrameInOrder ==
    /\ [][\A s \in Conns : \A r \in Conns \ {s} :
            Dispatches(s, MsgTypeMsg) /\ Live(r) =>
                wire'[r] = Append(wire[r], RelayedChat(s))]_vars
    /\ [][\A r \in Conns : IsPrefix(wire[r], wire'[r])]_vars
    /\ [][\A s \in Conns : \A r \in Conns :
            ChatsBy(s, wire'[r]) # ChatsBy(s, wire[r]) => Dispatches(s, MsgTypeMsg)]_vars

\* C2 witness: r has received two different Chat frames of s, in the order s's
\* handler dispatched them (s's own connection holds them in that order too).
C2_Witness ==
    \E s \in Conns : \E r \in Conns \ {s} :
        /\ Live(r) /\ Live(s)
        /\ Len(ChatsBy(s, wire[r])) = 2
        /\ ChatsBy(s, wire[r])[1] # ChatsBy(s, wire[r])[2]
        /\ ChatsBy(s, wire[r]) = ChatsBy(s, wire[s])

\* The System frame "<nick> joined" / "<nick> left" written by handler c.
JoinedFrame(c) == Frame(SystemMessage(nick[c] \o " joined"), c)
LeftFrame(c) == Frame(SystemMessage(nick[c] \o " left"), c)

\* C3: a Join as first frame adds exactly one registry entry, for that
\* connection and with the Join's nickname; the join notice then goes to the
\* host's observers and, exactly once, to every other registered connection,
\* and the joining connection never gets a System frame from its own handler.
C3_JoinAnnounced ==
    /\ [][\A c \in Conns :
            pc[c] = "connecting" /\ pc'[c] = "announce" =>
                /\ msg'[c].Type = MsgTypeJoin
                /\ c \notin clients
                /\ clients' = clients \cup {c}
                /\ nick'[c] = msg'[c].Nick
                /\ wire' = wire]_vars
    /\ [][\A c \in Conns :
            pc[c] = "announce" /\ pc'[c] = "loop" =>
                /\ (nick[c] \o " joined") \in notices'
                /\ \A r \in Conns :
                     wire'[r] = IF Live(r) /\ r # c
                                THEN Append(wire[r], JoinedFrame(c))
                                ELSE wire[r]]_vars
    /\ [](\A c \in Conns : \A i \in DOMAIN wire[c] :
            wire[c][i].by = c => wire[c][i].msg.Type # MsgTypeSystem)

\* C3 witness: c has joined after r, r has c's join notice and c has none.
C3_Witness ==
    \E c \in Conns : \E r \in Conns \ {c} :
        /\ pc[c] = "loop" /\ Live(r) /\ Live(c)
        /\ wire[r] = <<JoinedFrame(c)>>
        /\ wire[c] = <<>>
        /\ (nick[c] \o " joined") \in notices

\* The handler of c refused the first frame (or the first read failed).
Refused(c) == pc[c] = "done" /\ nick[c] = ""

\* C4: a connection whose first frame is not a Join, or whose first read
\* fails, is closed in that very step, which changes neither the registry nor
\* any connection's frames nor the observers' notices; such a connection is
\* never in the registry, gets no frame and no frame is written by its handler.
C4_RefusedUnseen ==
    /\ [][\A c \in Conns :
            pc[c] = "connecting" /\ pc'[c] \notin {"connecting", "announce"} =>
                /\ pc'[c] = "done"
                /\ closed'[c]
                /\ UNCHANGED <<clients, wire, notices, nick>>]_vars
    /\ [](\A c \in Conns :
            Refused(c) =>
                /\ c \notin clients
                /\ wire[c] = <<>>
                /\ \A d \in Conns : \A i \in DOMAIN wire[d] : wire[d][i].by # c)

\* C4 witness: a connection was refused on a non-Join first frame while
\* another participant was in the room.
C4_Witness ==
    \E c \in Conns : \E r \in Conns \ {c} :
        /\ Refused(c) /\ reads[c] = 1 /\ msg[c].Type = MsgTypeMsg
        /\ Live(r) /\ pc[r] = "loop"

\* Session lifecycle and chat relay, as in Next, in runs of MaxLeaveReads
\* frames.
NextLeave ==
    \/ \E c \in Conns : Accept(c)
    \/ \E c \in Conns : Budget(MaxLeaveReads) /\ Join(c)
    \/ \E c \in Conns : Budget(MaxLeaveReads) /\ RefuseFirst(c)
    \/ \E c \in Conns : Announce(c)
    \/ \E c \in Conns : Budget(MaxLeaveReads) /\ Chat(c)
    \/ \E c \in Conns : ReadFail(c)
    \/ \E c \in Conns : Close(c)
    \/ \E c \in Conns : Leave(c)

\* The handlers get to run: a handler that has left its read loop closes the
\* connection and sends the leave notice (goroutines are scheduled fairly and
\* a write completes).
FairSpec ==
    /\ Init /\ [][NextLeave]_vars
    /\ \A c \in Conns : WF_vars(Close(c)) /\ WF_vars(Leave(c))

\* The leave notices of handler x among the entries of w.
LeftBy(x, w) == SelectSeq(w, LAMBDA e : e = LeftFrame(x))

\* C5: a handler whose read has failed has removed its connection from the
\* registry; it eventually sends the leave notice; the notice is written once
\* on every connection registered then (and not closed by the host) and on no
\* other; and no connection ever holds it twice.
C5_LeftAnnounced ==
    /\ [](\A x \in Conns :
            pc[x] \in {"closing", "leaving", "done"} => x \notin clients)
    /\ \A x \in Conns : (pc[x] = "closing") ~> (pc[x] = "done")
    /\ [][\A x \in Conns :
            pc[x] = "leaving" /\ pc'[x] = "done" =>
                /\ (nick[x] \o " left") \in notices'
                /\ \A r \in Conns :
                     wire'[r] = IF Live(r) THEN Append(wire[r], LeftFrame(x))
                                ELSE wire[r]]_vars
    /\ [](\A x \in Conns : \A r \in Conns : Len(LeftBy(x, wire[r])) <= 1)

\* C5 witness: x has left and a participant still registered holds x's leave
\* notice as its last frame, while x's own connection does not hold it.
C5_Witness ==
    \E x \in Conns : \E r \in Conns \ {x} :
        /\ pc[x] = "done" /\ nick[x] # "" /\ x \notin clients
        /\ Live(r)
        /\ wire[r] # <<>> /\ wire[r][Len(wire[r])] = LeftFrame(x)
        /\ LeftBy(x, wire[x]) = <<>>

(* ============ properties of SpecOffer and SpecResolve ================== *)

\* The handler of x has left its read loop and removed x from the registry.
Disconnected(x) == pc[x] \in {"closing", "leaving", "done"} /\ nick[x] # ""

\* C6: once the handler of x has left the read loop and removed x from the
\* registry, no step writes a frame on x's connection.
C6_NoFrameAfterDisconnect ==
    [][\A x \in Conns : Disconnected(x) /\ x \notin clients => wire'[x] = wire[x]]_vars

\* The FileAccept frames among the entries of w.
FileAccs(w) == SelectSeq(w, LAMBDA e : e.msg.Type = MsgTypeFileAcc)

\* The offer frame the host relays for the FileOffer handler a read last.
OfferFrame(a) == Frame(Message(MsgTypeFileOffer, nick[a], msg[a].Text, msg[a].Data, ""), a)

\* C7: when handler b dispatches a FileAccept citing a nickname that has an
\* entry in the Pending-Offer Table, exactly one frame is written, on the
\* connection of the offer's sender: a FileAccept with b's nickname and the
\* offered filename; b's next step removes the entry.  When the cited nickname
\* has no entry, no frame is written and nothing but b's read position
\* changes.  FileAccept frames are written in no other step.
C7_AcceptAnswersOffer ==
    /\ [][\A b \in Conns :
            Dispatches(b, MsgTypeFileAcc) =>
                LET key == msg'[b].Text IN
                IF key \in DOMAIN pendingOffers
                THEN LET o == pendingOffers[key]
                         a == o.SenderConn
                     IN  /\ wire' = [wire EXCEPT ![a] =
                                IF closed[a] THEN @
                                ELSE Append(@, Frame(Message(MsgTypeFileAcc, nick[b],
                                                             o.Filename, "", ""), b))]
                         /\ pc'[b] = "accepted"
                ELSE UNCHANGED <<pc, nick, oldNick, offer, clients, offerVars, hostVars,
                                 netVars, notices>>]_vars
    /\ [][\A b \in Conns :
            pc[b] = "accepted" /\ pc'[b] # "accepted" =>
                /\ msg[b].Text \notin DOMAIN pendingOffers'
                /\ wire' = wire]_vars
    /\ [][\A a \in Conns :
            FileAccs(wire'[a]) # FileAccs(wire[a]) =>
                \E b \in Conns : Dispatches(b, MsgTypeFileAcc)]_vars

\* C7 witness: a offered a file to b, b accepted citing a; a's connection holds
\* exactly one FileAccept, naming b and the file, the table has no entry for a, and
\* b has since sent a second FileAccept citing a, which wrote nothing.
C7_Witness ==
    \E a \in Conns : \E b \in Conns \ {a} :
        /\ nick[a] # nick[b]
        /\ msg[a] = Message(MsgTypeFileOffer, nick[a], FileName(2), "", nick[b])
        /\ wire[b] = <<JoinedFrame(a), OfferFrame(a)>>
        /\ FileAccs(wire[a]) = <<Frame(Message(MsgTypeFileAcc, nick[b], FileName(2), "", ""), b)>>
        /\ nick[a] \notin DOMAIN pendingOffers
        /\ pc[b] = "loop" /\ reads[b] = 3
        /\ msg[b] = Message(MsgTypeFileAcc, nick[b], nick[a], "", "")

\* The step answers offer o: the host's accept / reject command answers the
\* host-local pending offer, or a handler looks o up in the Pending-Offer
\* Table for a FileAccept / FileReject.
Answers(o) ==
    \/ hostPendingFile = o /\ hostPendingFile' = NoOffer
    \/ \E d \in Conns :
        /\ Dispatches(d, MsgTypeFileAcc) \/ Dispatches(d, MsgTypeFileRej)
        /\ msg'[d].Text \in DOMAIN pendingOffers
        /\ pendingOffers[msg'[d].Text] = o

\* The offers the host holds: the entries of the Pending-Offer Table and the
\* host-local pending offer.
Pending == ({pendingOffers[k] : k \in DOMAIN pendingOffers} \cup {hostPendingFile}) \ {NoOffer}

\* C8: a FileOffer replaces the table's entry for the sender's nickname, and
\* an offer that its sender has followed by another FileOffer is never
\* answered afterwards: whenever an offer is answered while the last frame
\* its sender's handler has dispatched is a FileOffer, the answered offer is
\* the one that frame made.
C8_OnlySecondResolvable ==
    [][/\ \A a \in Conns :
            Dispatches(a, MsgTypeFileOffer) =>
                pendingOffers'[nick[a]] =
                    PendingOffer(nick[a], a, msg'[a].Text, msg'[a].Target, reads'[a])
       /\ \A o \in Pending :
            /\ Answers(o)
            /\ pc[o.SenderConn] = "loop"
            /\ msg[o.SenderConn].Type = MsgTypeFileOffer
            => o.Ref = reads[o.SenderConn]]_vars

\* C9: a FileOffer is recorded in the table under the sender's nickname; when
\* its target is a nickname other than "" and the host's, the offer frame is
\* written on the connection of one registered participant with that nickname
\* (on none when there is no such participant) and on no other connection,
\* and the host-local pending offer and the table stay as they are.
C9_TargetedOfferUnicast ==
    /\ [][\A a \in Conns :
            Dispatches(a, MsgTypeFileOffer) =>
                /\ pendingOffers' = Put(pendingOffers, nick[a],
                        PendingOffer(nick[a], a, msg'[a].Text, msg'[a].Target, reads'[a]))
                /\ UNCHANGED <<wire, hostPendingFile>>]_vars
    /\ [][\A a \in Conns :
            /\ pc[a] = "offered" /\ pc'[a] = "loop"
            /\ msg[a].Target \notin {"", hnick}
            => /\ UNCHANGED <<hostPendingFile, pendingOffers>>
               /\ IF \E r \in Conns : Live(r) /\ nick[r] = msg[a].Target
                  THEN \E r \in Conns :
                         /\ Live(r) /\ nick[r] = msg[a].Target
                         /\ wire' = [wire EXCEPT ![r] = Append(@, OfferFrame(a))]
                  ELSE wire' = wire]_vars

\* C9 witness: a's offer to b's nickname is in the table under a's nickname,
\* b holds the offer frame, a third participant holds none, and there is no
\* host-local pending offer.
C9_Witness ==
    \E a \in Conns : \E b \in Conns \ {a} : \E x \in Conns \ {a, b} :
        /\ Live(a) /\ Live(b) /\ Live(x) /\ pc[a] = "loop"
        /\ nick[b] \notin {nick[a], nick[x]}
        /\ msg[a].Type = MsgTypeFileOffer /\ msg[a].Target = nick[b]
        /\ nick[a] \in DOMAIN pendingOffers
        /\ pendingOffers[nick[a]] = PendingOffer(nick[a], a, msg[a].Text, nick[b], reads[a])
        /\ wire[b] # <<>> /\ wire[b][Len(wire[b])] = OfferFrame(a)
        /\ \A i \in DOMAIN wire[x] : wire[x][i].msg.Type # MsgTypeFileOffer
        /\ \A i \in DOMAIN wire[a] : wire[a][i].msg.Type # MsgTypeFileOffer
        /\ hostPendingFile = NoOffer

\* C10: a FileOffer with an empty target is written once on every registered
\* connection except the sender's, on no other connection, and the
\* host-local pending offer becomes this offer, whatever it was before.
C10_BroadcastOffer ==
    [][\A a \in Conns :
        /\ pc[a] = "offered" /\ pc'[a] = "loop"
        /\ msg[a].Target = ""
        => /\ \A r \in Conns :
                wire'[r] = IF Live(r) /\ r # a THEN Append(wire[r], OfferFrame(a))
                           ELSE wire[r]
           /\ hostPendingFile' =
                [SenderNick |-> nick[a], SenderConn |-> a, Filename |-> msg[a].Text,
                 RecipientNick |-> "", Ref |-> reads[a]]]_vars

\* C10 witness: a offered one file and then another to everyone; the host-local pending
\* offer is the second, the other participant holds both offer frames in that
\* order and a's connection holds no offer frame.
C10_Witness ==
    \E a \in Conns : \E r \in Conns \ {a} :
        /\ Live(a) /\ Live(r) /\ pc[a] = "loop"
        /\ msg[a] = Message(MsgTypeFileOffer, nick[a], FileName(3), "", "")
        /\ hostPendingFile = PendingOffer(nick[a], a, FileName(3), "", 3)
        /\ wire[r] = <<Frame(Message(MsgTypeFileOffer, nick[a], FileName(2), "", ""), a),
                       OfferFrame(a)>>
        /\ \A i \in DOMAIN wire[a] : wire[a][i].msg.Type # MsgTypeFileOffer

\* C11: a FileOffer whose target is the host's nickname changes nothing but
\* the host-local pending offer: the step that records the offer leaves the
\* Pending-Offer Table as it is, and neither that step nor the routing step
\* writes a frame.
C11_HostOfferLocalOnly ==
    [][\A a \in Conns :
        /\ Dispatches(a, MsgTypeFileOffer) /\ msg'[a].Target = hnick
           => UNCHANGED <<pendingOffers, wire>>
        /\ pc[a] = "offered" /\ pc'[a] = "loop" /\ msg[a].Target = hnick
           => /\ hostPendingFile' = PendingOffer(nick[a], a, msg[a].Text, "", reads[a])
              /\ UNCHANGED <<pendingOffers, wire>>]_vars

\* The FileReject frames among the entries of w.
FileRejs(w) == SelectSeq(w, LAMBDA e : e.msg.Type = MsgTypeFileRej)

\* C12: when handler b dispatches a FileReject citing a nickname that has an
\* entry in the Pending-Offer Table, exactly one frame is written, on the
\* connection of the offer's sender: a FileReject with b's nickname; b's next
\* step removes the entry.  When the cited nickname has no entry, no frame is
\* written and nothing but b's read position changes.  FileReject frames are
\* written in no other step of a handler.
C12_RejectAnswersOffer ==
    /\ [][\A b \in Conns :
            Dispatches(b, MsgTypeFileRej) =>
                LET key == msg'[b].Text IN
                IF key \in DOMAIN pendingOffers
                THEN LET a == pendingOffers[key].SenderConn
                     IN  /\ wire' = [wire EXCEPT ![a] =
                                IF closed[a] THEN @
                                ELSE Append(@, Frame(Message(MsgTypeFileRej, nick[b],
                                                             "", "", ""), b))]
                         /\ pc'[b] = "rejected"
                ELSE UNCHANGED <<pc, nick, oldNick, offer, clients, offerVars, hostVars,
                                 netVars, notices>>]_vars
    /\ [][\A b \in Conns :
            pc[b] = "rejected" /\ pc'[b] # "rejected" =>
                /\ msg[b].Text \notin DOMAIN pendingOffers'
                /\ wire' = wire]_vars
    /\ [][\A a \in Conns :
            FileRejs(wire'[a]) # FileRejs(wire[a]) =>
                \E b \in Conns : Dispatches(b, MsgTypeFileRej)]_vars

\* C12 witness: a offered a file to b, b rejected citing a; a's connection
\* holds exactly one FileReject, naming b, and no FileAccept, the table has no
\* entry for a, and b has since sent a second FileReject citing a, which wrote
\* nothing.
C12_Witness ==
    \E a \in Conns : \E b \in Conns \ {a} :
        /\ nick[a] # nick[b]
        /\ msg[a] = Message(MsgTypeFileOffer, nick[a], FileName(2), "", nick[b])
        /\ wire[b] = <<JoinedFrame(a), OfferFrame(a)>>
        /\ FileRejs(wire[a]) = <<Frame(Message(MsgTypeFileRej, nick[b], "", "", ""), b)>>
        /\ FileAccs(wire[a]) = <<>>
        /\ nick[a] \notin DOMAIN pendingOffers
        /\ pc[b] = "loop" /\ reads[b] = 3
        /\ msg[b] = Message(MsgTypeFileRej, nick[b], nick[a], "", "")

(* ================ properties of SpecFile and SpecSignal ================= *)

\* The frame the host relays for the FileData frame handler c has just read.
FileFrame(c) == Frame(Message(MsgTypeFile, nick[c], msg'[c].Text, msg'[c].Data, ""), c)

\* Some registered participant has the nickname.
Registered(n) == \E r \in clients : nick[r] = n

\* The entries of w that reach a client as file data.
FileDatas(w) == SelectSeq(w, LAMBDA e : e.msg.Type = MsgTypeFile)

\* C13: a FileData frame whose target is not empty, not the host's nickname
\* and the nickname of no registered participant writes no frame on any
\* connection (the sender's included), saves nothing, and leaves the sender
\* registered, its connection open and its handler in the read loop.
C13_UnknownTargetDropped ==
    [][\A c \in Conns :
        /\ Dispatches(c, MsgTypeFile)
        /\ msg'[c].Target \notin {"", hnick}
        /\ ~Registered(msg'[c].Target)
        => /\ UNCHANGED <<wire, saved, clients, closed>>
           /\ pc'[c] = "loop"]_vars

\* C13 witness: c has sent file data to the nickname of nobody in the room,
\* with another participant in the room; no connection holds file data and
\* nothing is saved.
C13_Witness ==
    \E c \in Conns : \E r \in Conns \ {c} :
        /\ Live(c) /\ Live(r) /\ pc[c] = "loop"
        /\ msg[c].Type = MsgTypeFile /\ DecodeString(msg[c].Data).ok
        /\ msg[c].Target \in Nicks /\ ~Registered(msg[c].Target)
        /\ \A x \in Conns : FileDatas(wire[x]) = <<>>
        /\ saved = <<>>

\* What a FileData frame does to the connections, by its target.
FileRelayed(c) ==
    LET m == msg'[c] IN
    IF m.Target = ""
    THEN \A r \in Conns :
            wire'[r] = IF Live(r) /\ r # c THEN Append(wire[r], FileFrame(c)) ELSE wire[r]
    ELSE IF m.Target = hnick
    THEN wire' = wire
    ELSE IF \E r \in Conns : Live(r) /\ nick[r] = m.Target
    THEN \E r \in Conns :
            /\ Live(r) /\ nick[r] = m.Target
            /\ wire' = [wire EXCEPT ![r] = Append(@, FileFrame(c))]
    ELSE wire' = wire

\* C14 as stated: with an empty target or the host's nickname as target the
\* file is saved at the host, with any other target nothing is saved; the
\* frame goes to every registered connection but the sender's, to nobody, or
\* to one connection with the target nickname.
C14_RoutesByTarget ==
    [][\A c \in Conns :
        Dispatches(c, MsgTypeFile) =>
            /\ FileRelayed(c)
            /\ IF msg'[c].Target \in {"", hnick}
               THEN msg'[c].Text \in DOMAIN saved'
               ELSE saved' = saved]_vars

\* C14 as amended: as above, but the host saves the file only when its
\* payload decodes as base64 (under the file's name, with the decoded
\* content); a payload that does not decode is relayed all the same and
\* nothing is saved.
C14_RoutesByTargetDecoded ==
    [][\A c \in Conns :
        Dispatches(c, MsgTypeFile) =>
            /\ FileRelayed(c)
            /\ saved' = IF msg'[c].Target \in {"", hnick} /\ DecodeString(msg'[c].Data).ok
                        THEN Put(saved, msg'[c].Text, DecodeString(msg'[c].Data).bytes)
                        ELSE saved]_vars

\* C14 witness: c sent decodable file data to everyone and then file data that
\* does not decode; the other participant holds both frames, c's connection
\* holds neither, and only the first file is saved.
C14_Witness ==
    \E c \in Conns : \E r \in Conns \ {c} :
        /\ Live(c) /\ Live(r) /\ pc[c] = "loop"
        /\ msg[c] = Message(MsgTypeFile, nick[c], FileName(3), "%", "")
        /\ FileDatas(wire[r]) =
              <<Frame(Message(MsgTypeFile, nick[c], FileName(2), "aGk=", ""), c),
                Frame(Message(MsgTypeFile, nick[c], FileName(3), "%", ""), c)>>
        /\ FileDatas(wire[c]) = <<>>
        /\ DOMAIN saved = {FileName(2)} /\ saved[FileName(2)] = "hi"

\* C15: a WebRTC frame whose target is the host's nickname adds the pair of
\* the sender's registered nickname and the payload to what the media manager
\* has been handed, and writes no frame; with any other target the host hands
\* nothing to the media manager and writes one frame, on one registered
\* connection with the target nickname (none when there is no such
\* connection): the payload and the target as received, with the sender's
\* registered nickname whatever nickname the frame came with.
C15_SignalRelayed ==
    [][\A c \in Conns :
        Dispatches(c, MsgTypeWebRTC) =>
            LET m == msg'[c]
                fwd == Frame(Message(MsgTypeWebRTC, nick[c], "", m.Data, m.Target), c)
            IN  IF m.Target = hnick
                THEN /\ signals' = signals \cup {<<nick[c], m.Data>>}
                     /\ wire' = wire
                ELSE /\ signals' = signals
                     /\ IF \E r \in Conns : Live(r) /\ nick[r] = m.Target
                        THEN \E r \in Conns :
                                /\ Live(r) /\ nick[r] = m.Target
                                /\ wire' = [wire EXCEPT ![r] = Append(@, fwd)]
                        ELSE wire' = wire]_vars

\* C15 witness: c sent a signal for r under another nickname than its own; r
\* holds the signal under c's registered nickname, a third participant holds
\* none, and the media manager has been handed nothing.
C15_Witness ==
    \E c \in Conns : \E r \in Conns \ {c} : \E x \in Conns \ {c, r} :
        /\ Live(c) /\ Live(r) /\ Live(x)
        /\ nick[r] \notin {nick[c], nick[x]}
        /\ msg[c].Type = MsgTypeWebRTC /\ msg[c].Target = nick[r]
        /\ msg[c].Nick # nick[c]
        /\ wire[r] # <<>>
        /\ wire[r][Len(wire[r])] =
              Frame(Message(MsgTypeWebRTC, nick[c], "", msg[c].Data, nick[r]), c)
        /\ \A i \in DOMAIN wire[x] : wire[x][i].msg.Type # MsgTypeWebRTC
        /\ \A i \in DOMAIN wire[c] : wire[c][i].msg.Type # MsgTypeWebRTC
        /\ signals = {}

(* ======================= properties of SpecList ======================== *)

\* The lists of participant names a user list text can stand for: what a
\* reader gets by splitting the text at ", " and dropping the host's entry.
NameLists == UNION {[1..k -> Nicks] : k \in 0..Cardinality(Conns)}

Parses(text) ==
    {names \in NameLists : StringsJoin(<<hnick \o " (host)">> \o names, ", ") = text}

Count(names, n) == Cardinality({i \in DOMAIN names : names[i] = n})

\* The step is one in which handler q reads a UserList request and its
\* connection takes the reply.
Lists(q) == Dispatches(q, MsgTypeUserList) /\ ~closed[q]

\* The last frame written to c's connection.
LastFrame(w, c) == w[c][Len(w[c])]

\* C16 (as stated): once the host has processed a NickChange of a registered
\* participant p, every UserList reply written from then on has an entry
\* with p's new nickname and no entry with p's old nickname.
C16_NeverOldName ==
    [][\A q \in Conns : Lists(q) =>
        \A p \in clients : oldNick[p] # "" =>
            \A names \in Parses(LastFrame(wire', q).msg.Text) :
                /\ Count(names, nick[p]) >= 1
                /\ Count(names, oldNick[p]) = 0]_vars

\* C16 (amended): once the host has processed a NickChange of a registered
\* participant p, every UserList reply written from then on is a list of
\* the current nicknames: p's new nickname has one entry for each registered
\* connection that carries it now, and p's old nickname has only as many
\* entries as registered connections carry it now (none, when no registered
\* connection is named so any more).
C16_ListsCurrentNames ==
    [][\A q \in Conns : Lists(q) =>
        /\ Parses(LastFrame(wire', q).msg.Text) # {}
        /\ \A p \in clients : oldNick[p] # "" =>
            \A names \in Parses(LastFrame(wire', q).msg.Text) :
                \A n \in {nick[p], oldNick[p]} :
                    Count(names, n) = Cardinality({r \in clients : nick[r] = n})]_vars

\* C16 witness: p changed its nickname from one name to another, no
\* registered connection carries the old one, and the reply q got last has
\* p's new name and not the old one.
C16_Witness ==
    \E p \in Conns : \E q \in Conns \ {p} :
        /\ Live(p) /\ Live(q) /\ pc[p] = "loop"
        /\ oldNick[p] # "" /\ oldNick[p] # nick[p]
        /\ \A r \in clients : nick[r] # oldNick[p]
        /\ msg[q].Type = MsgTypeUserList
        /\ wire[q] # <<>>
        /\ LastFrame(wire, q).msg.Type = MsgTypeUserList
        /\ \E names \in Parses(LastFrame(wire, q).msg.Text) :
              /\ Count(names, nick[p]) >= 1
              /\ Count(names, oldNick[p]) = 0

\* C17: a NickChange of p makes the frame's text p's registered nickname at
\* once, and the notice that follows, "<old> is now known as <new>" with the
\* nickname p was registered under before and the one it carries now, is
\* written to every registered participant but p and to nobody else.
C17_RenameNoticed ==
    /\ [][\A p \in Conns : Dispatches(p, MsgTypeNick) =>
            /\ nick' = [nick EXCEPT ![p] = msg'[p].Text]
            /\ oldNick'[p] = nick[p]
            /\ pc'[p] = "renamed"
            /\ wire' = wire /\ clients' = clients]_vars
    /\ [](\A p \in Conns : pc[p] = "renamed" =>
            /\ msg[p].Type = MsgTypeNick /\ nick[p] = msg[p].Text
            /\ p \in clients)
    /\ [][\A p \in Conns : pc[p] = "renamed" /\ pc'[p] # "renamed" =>
            LET sysMsg == oldNick[p] \o " is now known as " \o msg[p].Text IN
            /\ pc'[p] = "loop" /\ nick' = nick
            /\ sysMsg \in notices'
            /\ \A r \in Conns :
                  wire'[r] = IF Live(r) /\ r # p
                             THEN Append(wire[r], Frame(SystemMessage(sysMsg), p))
                             ELSE wire[r]]_vars
    /\ [][\A p \in Conns : nick'[p] # nick[p] =>
            pc[p] = "connecting" \/ Dispatches(p, MsgTypeNick)]_vars

\* C17 witness: p, registered as one name, asked for another; it carries the
\* new name, the other two participants hold the notice as their last frame
\* and p holds no notice of it.
C17_Witness ==
    \E p \in Conns : \E r \in Conns \ {p} : \E x \in Conns \ {p, r} :
        /\ Live(p) /\ Live(r) /\ Live(x) /\ pc[p] = "loop"
        /\ msg[p].Type = MsgTypeNick /\ nick[p] = msg[p].Text
        /\ oldNick[p] # "" /\ oldNick[p] # nick[p]
        /\ LET f == Frame(SystemMessage(oldNick[p] \o " is now known as " \o nick[p]), p) IN
            /\ wire[r] # <<>> /\ LastFrame(wire, r) = f
            /\ wire[x] # <<>> /\ LastFrame(wire, x) = f
            /\ \A i \in DOMAIN wire[p] : wire[p][i] # f

\* C18: a Ping of c is answered with one Pong on c's connection; no other
\* connection is written to and the registry, the nicknames and the pending
\* offers stay as they are.
C18_PingPong ==
    [][\A c \in Conns : Dispatches(c, MsgTypePing) =>
        /\ wire' = [wire EXCEPT ![c] =
                       IF closed[c] THEN @
                       ELSE Append(@, Frame(Message(MsgTypePong, "", "", "", ""), c))]
        /\ pc' = pc
        /\ UNCHANGED <<clients, nick, pendingOffers, hostPendingFile, closed,
                       notices, hnick, listening>>]_vars

\* C18 witness: c pinged while another participant was registered; c's last
\* frame is the Pong and the other participant holds none.
C18_Witness ==
    \E c \in Conns : \E r \in Conns \ {c} :
        /\ Live(c) /\ Live(r) /\ pc[r] = "loop"
        /\ msg[c].Type = MsgTypePing
        /\ wire[c] # <<>>
        /\ LastFrame(wire, c) = Frame(Message(MsgTypePong, "", "", "", ""), c)
        /\ \A i \in DOMAIN wire[r] : wire[r][i].msg.Type # MsgTypePong

\* C19: a UserList request of q is answered with one UserList frame on q's
\* connection only; its text is the host's nickname followed by " (host)"
\* and then the nickname of every registered connection, one entry per
\* connection in some order, so a nickname carried by two connections is
\* listed twice.
C19_UserListReply ==
    [][\A q \in Conns : Dispatches(q, MsgTypeUserList) =>
        /\ q \in clients
        /\ \E order \in Orders(clients) :
            LET names == [i \in 1..Cardinality(clients) |-> nick[order[i]]]
                users == StringsJoin(<<hnick \o " (host)">> \o names, ", ")
            IN  wire' = [wire EXCEPT ![q] =
                           IF closed[q] THEN @
                           ELSE Append(@, Frame(Message(MsgTypeUserList, "", users, "", ""), q))]
        /\ UNCHANGED <<clients, nick>>]_vars

\* C19 witness: two registered connections carry the same nickname, q asked
\* for the list and got both entries; the other connection got no list.
C19_Witness ==
    \E q \in Conns : \E r \in Conns \ {q} :
        /\ clients = {q, r} /\ Live(q) /\ Live(r) /\ pc[r] = "loop"
        /\ nick[q] = nick[r]
        /\ msg[q].Type = MsgTypeUserList
        /\ wire[q] # <<>>
        /\ LastFrame(wire, q) =
              Frame(Message(MsgTypeUserList, "",
                            StringsJoin(<<hnick \o " (host)", nick[q], nick[q]>>, ", "),
                            "", ""), q)
        /\ \A i \in DOMAIN wire[r] : wire[r][i].msg.Type # MsgTypeUserList

\* C20: a frame the host cannot decode, or one whose kind it does not know,
\* ends the read loop of the connection it came on: the connection leaves
\* the registry and goes on to be closed.
C20_BadFrameDrops ==
    [][\A c \in Conns : \A type \in OtherTypes \cup {NoMsg.Type} :
        Dispatches(c, type) => c \notin clients' /\ pc'[c] = "closing"]_vars

(* ======================= properties of SpecError ======================= *)

\* The step is one in which c's read fails in the loop, on a read error or
\* on a line that does not decode.
Fails(c) == pc[c] = "loop" /\ pc'[c] = "closing"

\* The step leaves every connection but c as it is in the registry: entry,
\* nickname, position of the handler, and whether the host has closed it.
OthersKept(c) ==
    \A r \in Conns \ {c} :
        /\ (r \in clients') = (r \in clients)
        /\ nick'[r] = nick[r]
        /\ pc'[r] = pc[r]
        /\ closed'[r] = closed[r]

\* C21: an error on one connection stays with that connection.  A failed
\* read or a frame that does not decode removes exactly the failing
\* connection from the registry and leaves every other connection's entry,
\* nickname, handler and connection as they are; so do the close and the
\* leave notice that follow.  A write on a connection the host has closed
\* fails and changes nothing at all.  No connection leaves the registry, is
\* closed or is renamed other than by a step of its own handler.
C21_ErrorsLocal ==
    /\ [][\A c \in Conns : Fails(c) =>
            /\ clients' = clients \ {c}
            /\ OthersKept(c)
            /\ wire' = wire]_vars
    /\ [][\A c \in Conns : pc[c] \in {"closing", "leaving"} /\ pc'[c] # pc[c] =>
            /\ clients' = clients
            /\ OthersKept(c)]_vars
    /\ [][(hostPendingFile # NoOffer /\ hostPendingFile' = NoOffer
            /\ closed[hostPendingFile.SenderConn]) =>
            /\ wire' = wire /\ clients' = clients
            /\ OthersKept(NilConn)]_vars
    /\ [][\A r \in Conns :
            /\ (r \in clients /\ r \notin clients') => Fails(r)
            /\ closed'[r] # closed[r] => pc[r] \in {"closing", "connecting"}
            /\ (r \in clients /\ nick'[r] # nick[r]) => pc'[r] # pc[r]]_vars

\* C21 witness: c's read failed after it had offered the host a file, c left,
\* and the host's answer failed on c's closed connection; r, which joined
\* before, is still registered with its handler in the read loop and has
\* c's leave notice as its last frame.
C21_Witness ==
    \E c \in Conns : \E r \in Conns \ {c} :
        /\ pc[c] = "done" /\ closed[c] /\ c \notin clients
        /\ msg[c].Type \in {MsgTypeFileOffer, NoMsg.Type}
        /\ hostPendingFile = NoOffer
        /\ \A i \in DOMAIN wire[c] : wire[c][i].by # HostTask
        /\ \E n \in DOMAIN pendingOffers :
              /\ pendingOffers[n].SenderConn = c
              /\ pendingOffers[n].RecipientNick = hnick
        /\ \A n \in DOMAIN pendingOffers : pendingOffers[n].SenderConn = c
        /\ Live(r) /\ pc[r] = "loop" /\ reads[r] = 1
        /\ wire[r] # <<>>
        /\ LastFrame(wire, r) = Frame(SystemMessage(nick[c] \o " left"), c)

(* ======================= properties of SpecLock ======================== *)

\* The step adds c to the registry, removes it, or changes the nickname of
\* its registry entry.
Mutates(c) ==
    \/ (c \in clients) # (c \in clients')
    \/ c \in clients /\ nick'[c] # nick[c]

\* C22: every step that adds a connection to the registry, removes it or
\* renames its entry is taken by a task that holds the registry lock in write
\* mode, so no task is inside a read-mode section (snapshot, lookup by
\* nickname, broadcast) when it happens.
C22_MutationsExclusive ==
    [][\A c \in Conns : Mutates(c) => mutex.w = c /\ mutex.r = {}]_vars

\* The step is one in which handler c reads or writes the pending-offer
\* table: the store of a FileOffer, the lookup of a FileAccept, the delete
\* that follows a successful lookup.
TouchesTable(c) ==
    \/ Dispatches(c, MsgTypeFileOffer)
    \/ Dispatches(c, MsgTypeFileAcc)
    \/ pc[c] = "accepted" /\ pc'[c] = "loop"

\* C23: a handler reads or writes the pending-offer table only while it
\* holds the registry lock in write mode, and between a handler's lookup of
\* an offer and its delete no other handler changes the table.
C23_TableUnderLock ==
    /\ [][\A c \in Conns : TouchesTable(c) => mutex.w = c]_vars
    /\ [][\A c \in Conns :
            pc[c] = "accepted" /\ pc'[c] = "accepted" => pendingOffers' = pendingOffers]_vars

(* ======================= properties of SpecWrite ======================= *)

ShutsDown ==
    /\ pc' = pc /\ reads' = reads
    /\ listening' # listening \/ closed' # closed

RoomClosed == Frame(SystemMessage("Room closed by host"), HostTask)

\* C25: a Shutdown writes the System frame "Room closed by host" on the
\* connection of every participant registered at that moment, after the
\* frames that connection has and before it is closed, closes each of these
\* connections, writes on no other connection, and closes the listener; once
\* the listener is closed it stays closed and no connection is accepted.
C25_ShutdownNotifies ==
    /\ [][ShutsDown =>
            /\ ~listening'
            /\ clients' = clients
            /\ \A c \in Conns :
                /\ wire'[c] = IF c \in clients /\ ~closed[c]
                              THEN Append(wire[c], RoomClosed)
                              ELSE wire[c]
                /\ closed'[c] = (closed[c] \/ c \in clients)]_vars
    /\ [][~listening =>
            /\ ~listening'
            /\ \A c \in Conns : pc[c] = "idle" => pc'[c] = "idle"]_vars
    /\ [][\A c \in Conns : c \in clients /\ closed[c] => wire'[c] = wire[c]]_vars

\* C25 witness: the host has shut down a room of two participants: both are
\* closed with the notice as their last frame, the listener is closed and the
\* third connection has not been accepted.
C25_Witness ==
    \E c \in Conns : \E r \in Conns \ {c} : \E x \in Conns \ {c, r} :
        /\ ~listening
        /\ clients = {c, r}
        /\ closed[c] /\ closed[r]
        /\ wire[c] # <<>> /\ LastFrame(wire, c) = RoomClosed
        /\ Len(wire[r]) >= 2 /\ LastFrame(wire, r) = RoomClosed
        /\ pc[x] = "idle"

\* C26: a Shutdown closes every connection the host has accepted, those that
\* have sent no Join yet included, and once the listener is closed no
\* connection completes a Join or enters the registry and no frame is written
\* on an open connection.
C26_ShutdownClosesAll ==
    /\ [][ShutsDown => \A c \in Conns : pc[c] # "idle" => closed'[c]]_vars
    /\ [][~listening =>
            \A c \in Conns :
                /\ c \in clients' => c \in clients
                /\ pc[c] = "connecting" => pc'[c] # "announce"
                /\ ~closed'[c] => wire'[c] = wire[c]]_vars

(* ===================== properties of SpecBroadcast ===================== *)

\* The step writes frame m of handler c on every registered connection but
\* c's own, and on no other.
ToAllBut(c, m) ==
    \A r \in Conns :
        wire'[r] = IF Live(r) /\ r # c THEN Append(wire[r], Frame(m, c)) ELSE wire[r]

\* C27: the join notice, the nickname notice, a file offer to everyone and
\* file data to everyone are written on every registered connection except
\* the one they come from, whatever the nicknames: a participant registered
\* under the originator's nickname gets the frame like anyone else.
C27_ExcludesConnOnly ==
    [][\A c \in Conns :
        /\ pc[c] = "announce" /\ pc'[c] = "loop" =>
              ToAllBut(c, SystemMessage(nick[c] \o " joined"))
        /\ pc[c] = "renamed" /\ pc'[c] = "loop" =>
              ToAllBut(c, SystemMessage(oldNick[c] \o " is now known as " \o nick[c]))
        /\ pc[c] = "offered" /\ pc'[c] = "loop" /\ msg[c].Target = "" =>
              ToAllBut(c, Message(MsgTypeFileOffer, nick[c], msg[c].Text, msg[c].Data, ""))
        /\ Dispatches(c, MsgTypeFile) /\ msg'[c].Target = "" =>
              ToAllBut(c, Message(MsgTypeFile, nick[c], msg'[c].Text, msg'[c].Data, ""))]_vars

\* C27 witness: c and r are registered under the same nickname, c sent file
\* data to everyone, r has the frame and c has no frame of its own.
C27_Witness ==
    \E c \in Conns : \E r \in Conns \ {c} :
        /\ Live(c) /\ Live(r)
        /\ nick[c] = nick[r]
        /\ msg[c].Type = MsgTypeFile /\ msg[c].Target = ""
        /\ wire[r] # <<>>
        /\ LastFrame(wire, r) =
              Frame(Message(MsgTypeFile, nick[c], msg[c].Text, msg[c].Data, ""), c)
        /\ \A i \in DOMAIN wire[c] : wire[c][i].by # c

\* The step writes frame m of handler c on one connection registered under
\* nickname n, whichever of them, and on no other; with nobody registered
\* under n it writes nothing.
ToOneOf(c, n, m) ==
    LET matches == {r \in clients : nick[r] = n} IN
    IF matches = {}
    THEN wire' = wire
    ELSE \E r \in matches :
            wire' = [wire EXCEPT ![r] = IF closed[r] THEN @ ELSE Append(@, Frame(m, c))]

\* C28: a file offer or file data addressed to a nickname other than the
\* host's is written on at most one connection: on exactly one of the
\* connections registered under that nickname when there are several, and on
\* none when there is none.
C28_UnicastToOne ==
    [][\A c \in Conns :
        /\ (pc[c] = "offered" /\ pc'[c] = "loop" /\ msg[c].Target \notin {"", hnick}) =>
              ToOneOf(c, msg[c].Target,
                      Message(MsgTypeFileOffer, nick[c], msg[c].Text, msg[c].Data, ""))
        /\ (Dispatches(c, MsgTypeFile) /\ msg'[c].Target \notin {"", hnick}) =>
              ToOneOf(c, msg'[c].Target,
                      Message(MsgTypeFile, nick[c], msg'[c].Text, msg'[c].Data, ""))]_vars

\* C28 witness: two participants are registered under one nickname, a third
\* sent file data to that nickname, one of the two has the frame and the
\* other, like the sender, has no file data at all.
C28_Witness ==
    \E c \in Conns : \E r \in Conns \ {c} : \E x \in Conns \ {c, r} :
        /\ Live(c) /\ Live(r) /\ Live(x)
        /\ nick[r] = nick[x] /\ nick[c] # nick[r]
        /\ msg[c].Type = MsgTypeFile /\ msg[c].Target = nick[r]
        /\ wire[r] # <<>>
        /\ LastFrame(wire, r) =
              Frame(Message(MsgTypeFile, nick[c], msg[c].Text, msg[c].Data, ""), c)
        /\ \A i \in DOMAIN wire[x] : wire[x][i].msg.Type # MsgTypeFile
        /\ \A i \in DOMAIN wire[c] : wire[c][i].msg.Type # MsgTypeFile

(* ====================== properties of SpecOrphan ======================= *)

\* The step is one of handler c's disconnect: the failed read with the
\* removal from the registry, the close, the leave notice.
Departs(c) ==
    \/ Fails(c)
    \/ pc[c] \in {"closing", "leaving"} /\ pc'[c] # pc[c]

\* C29: no step of a disconnect changes the pending-offer table, and an
\* entry of the table goes or changes only when a FileAccept or FileReject
\* citing its key is resolved or when a FileOffer of a handler registered
\* under its key is stored over it; so the offer of a sender, or to a
\* recipient, that has disconnected stays until then.
C29_DisconnectKeepsOffers ==
    /\ [][\A c \in Conns : Departs(c) => pendingOffers' = pendingOffers]_vars
    /\ [][\A n \in DOMAIN pendingOffers :
            (n \notin DOMAIN pendingOffers' \/ pendingOffers'[n] # pendingOffers[n]) =>
                \E c \in Conns :
                    \/ Dispatches(c, MsgTypeFileOffer) /\ nick[c] = n
                    \/ /\ pc[c] \in {"accepted", "rejected"} /\ pc'[c] = "loop"
                       /\ msg[c].Text = n]_vars

\* C29 witness: c offered a file to r's nickname, r has disconnected and is
\* gone, nobody else carries that nickname, and the offer is still in the
\* table.
C29_Witness ==
    \E c \in Conns : \E r \in Conns \ {c} :
        /\ Live(c) /\ pc[c] = "loop"
        /\ pc[r] = "done" /\ closed[r] /\ r \notin clients
        /\ nick[r] # nick[c] /\ \A x \in clients : nick[x] # nick[r]
        /\ nick[c] \in DOMAIN pendingOffers
        /\ pendingOffers[nick[c]].SenderConn = c
        /\ pendingOffers[nick[c]].RecipientNick = nick[r]

(* ================== properties of SpecList (continued) ================= *)

\* C30: a Join frame read on a connection that is already registered changes
\* nothing: the registry and every nickname stay as they are, no frame is
\* written on any connection, nothing is reported to the host's user, and
\* the handler stays in its read loop.
C30_LateJoinIgnored ==
    [][\A c \in Conns : Dispatches(c, MsgTypeJoin) =>
        /\ clients' = clients
        /\ nick' = nick
        /\ wire' = wire
        /\ notices' = notices
        /\ pc' = pc]_vars

\* C30 witness: c, registered under one nickname, sent a Join with another
\* as a later frame; it still carries the first one, and r, which was there
\* when c joined, has c's join notice and nothing else.
C30_Witness ==
    \E c \in Conns : \E r \in Conns \ {c} :
        /\ Live(c) /\ Live(r) /\ pc[c] = "loop"
        /\ reads[c] >= 2
        /\ msg[c].Type = MsgTypeJoin /\ msg[c].Nick # nick[c]
        /\ wire[r] = <<Frame(SystemMessage(nick[c] \o " joined"), c)>>

(* ======================= properties of SpecHost ======================== *)

\* The step is one in which handler c routes a file offer: it compares
\* msg.Target with h.nick and, for an offer to the host or to everyone,
\* writes h.hostPendingFile.
RoutesOffer(c) == pc[c] = "offered" /\ pc'[c] = "loop"

\* The step is one of the host's command path on h.nick or on
\* h.hostPendingFile: the assignment of a nickname change, the test and the
\* reads of /accept and /reject, their assignment of nil.
Commands ==
    \/ hnick' # hnick
    \/ hpc = Serving /\ hpc'.at = "decided"
    \/ hpc.at = "decided" /\ hpc' = Serving

\* C31: the host nickname and the host-local pending offer are accessed
\* under the common lock only.  A handler that routes a file offer holds the
\* registry lock, the host's command path holds it when it changes the
\* nickname and when it reads or clears the host-local pending offer, and so
\* no handler writes the host-local pending offer between the command path's
\* test of it and its clearing.
C31_HostStateUnderLock ==
    /\ [][\A c \in Conns : RoutesOffer(c) => mutex.w = c \/ c \in mutex.r]_vars
    /\ [][Commands => mutex.w = HostTask \/ HostTask \in mutex.r]_vars
    /\ [][hpc.at = "decided" /\ hpc'.at = "decided" =>
            hostPendingFile' = hostPendingFile]_vars

(* ======================= properties of SpecStart ======================= *)

\* C32: the advertisement runs only while the listening socket is open.
\* Once Start has returned an error there is no listener, no connection has
\* been accepted and no advertisement is running; and whenever Start has
\* returned, an advertisement that runs has an open listener, so that after
\* Shutdown neither is active.
C32_AdvertisedWhileListening ==
    /\ hpc.at = "failed" =>
        /\ ~listening
        /\ \A c \in Conns : pc[c] = "idle"
        /\ ~mdnsServer
    /\ hpc.at \in {"serving", "failed"} /\ mdnsServer => listening

(* ====================== properties of SpecClient ======================= *)

\* The frames of a log that are decisions on an offer, as the client reads
\* them.
Decisions(log) == Events(log, "in", MsgTypeFileAcc) \cup Events(log, "in", MsgTypeFileRej)

\* C33: a client's file transfer is two-phase.  Every FileData frame the
\* client writes directly follows a FileAccept it read, and some offer of
\* the client was outstanding then: written before, with no FileAccept or
\* FileReject read since.  So a decision clears the offer, a later
\* FileAccept sends nothing, and the client writes no more FileData frames
\* than it made offers.
C33_TwoPhase ==
    LET log == chatClient.log
        offers == Events(log, "out", MsgTypeFileOffer)
        files == Events(log, "out", MsgTypeFile)
    IN  /\ \A i \in files :
            /\ i > 1
            /\ (i - 1) \in Events(log, "in", MsgTypeFileAcc)
            /\ \E j \in offers :
                /\ j < i
                /\ \A k \in Decisions(log) : ~(j < k /\ k < i - 1)
        /\ Cardinality(files) <= Cardinality(offers)

\* The entries of a log that the receive loop made: the frames it read and
\* the FileData frames it wrote.
Received(log) ==
    {i \in DOMAIN log : log[i].dir = "in"} \cup Events(log, "out", MsgTypeFile)

\* C34: a failed read raises ConnectionLost exactly once and ends the
\* receive loop.  The count of ConnectionLost events changes only in a step
\* that takes the loop from reading to stopped, and there it goes from 0 to
\* 1; once the loop has stopped it stays stopped, the event is not raised
\* again, no frame is read or dispatched any more and the loop does not
\* touch the outstanding offer.
C34_LostOnceThenStops ==
    /\ [][chatClient'.lost # chatClient.lost =>
            /\ chatClient.loop = "recv" /\ chatClient'.loop = "stopped"
            /\ chatClient.lost = 0 /\ chatClient'.lost = 1]_vars
    /\ [][chatClient.loop = "stopped" =>
            /\ chatClient'.loop = "stopped"
            /\ chatClient'.lost = chatClient.lost
            /\ Received(chatClient'.log) = Received(chatClient.log)
            /\ (chatClient'.lastOfferedFile = "" => chatClient.lastOfferedFile = "")]_vars
    /\ [][chatClient'.loop = "stopped" /\ chatClient.loop # "stopped" =>
            chatClient'.lost = chatClient.lost + 1]_vars

\* C34 witness: the loop has read a frame, then a read failed; the event was
\* raised once, and an offer made since then stays outstanding.
C34_Witness ==
    /\ chatClient.loop = "stopped" /\ chatClient.lost = 1
    /\ Len(chatClient.log) >= 2
    /\ chatClient.log[1].dir = "in"
    /\ chatClient.log[Len(chatClient.log)].msg.Type = MsgTypeFileOffer
    /\ chatClient.lastOfferedFile # ""

(* ================ properties of SpecResolve (continued) ================ *)

\* Where a handler stands after a successful lookup for a decision.
After(type) == IF type = MsgTypeFileAcc THEN "accepted" ELSE "rejected"

\* C36: offers are resolved by the cited sender nickname alone.  When a
\* handler c dispatches a FileAccept or FileReject citing a nickname that
\* has an entry in the Pending-Offer Table, then, whatever recipient the
\* entry names, c takes the entry, the decision naming c is written on the
\* connection of the offer's sender (unless the host has closed it) and on
\* no other, and c's next step removes the entry.
C36_ResolvedBySenderAlone ==
    /\ [][\A c \in Conns : \A t \in {MsgTypeFileAcc, MsgTypeFileRej} :
            Dispatches(c, t) /\ msg'[c].Text \in DOMAIN pendingOffers =>
                LET o == pendingOffers[msg'[c].Text]
                    a == o.SenderConn
                IN  /\ offer'[c] = o
                    /\ pc'[c] = After(t)
                    /\ \A r \in Conns \ {a} : wire'[r] = wire[r]
                    /\ wire'[a] = IF closed[a] THEN wire[a]
                                  ELSE Append(wire[a], Frame(Reply(t, nick[c], o.Filename), c))]_vars
    /\ [][\A c \in Conns :
            pc[c] \in {"accepted", "rejected"} /\ pc'[c] = "loop" =>
                pendingOffers' = Delete(pendingOffers, msg[c].Text)]_vars

\* C36 witness: a offered a file to a recipient that is not c; c, another
\* participant, accepted citing a; the host took a's offer for c and wrote
\* the FileAccept naming c on a's connection.
C36_Witness ==
    \E c \in Conns :
        /\ Live(c) /\ pc[c] = "accepted"
        /\ offer[c].RecipientNick \notin {"", nick[c]}
        /\ offer[c].SenderConn # c /\ Live(offer[c].SenderConn)
        /\ offer[c].SenderNick = nick[offer[c].SenderConn]
        /\ wire[offer[c].SenderConn] # <<>>
        /\ LastFrame(wire, offer[c].SenderConn) =
                Frame(Message(MsgTypeFileAcc, nick[c], offer[c].Filename, "", ""), c)

(* ====================== properties of SpecDecide ======================= *)

\* The decisions written on a connection: FileAccept and FileReject frames.
Decided(w) == SelectSeq(w, LAMBDA e : e.msg.Type \in {MsgTypeFileAcc, MsgTypeFileRej})

\* C37: a participant's connection gets at most one decision for each file
\* offer it made, from another participant or from the host.  A FileAccept
\* carries the name of the file it accepts and every offer of a connection
\* has a name of its own (the n-th frame offers FileName(n)): no name is
\* accepted twice on the connection that offered it.  A FileReject carries
\* no name: a connection whose one offer so far is its second frame, the
\* first after its Join, holds at most one decision of either kind.
C37_OneDecisionPerOffer ==
    \A a \in Conns :
        /\ \A n \in 1..reads[a] :
            Len(SelectSeq(wire[a], LAMBDA e : e.msg.Type = MsgTypeFileAcc
                                              /\ e.msg.Text = FileName(n))) <= 1
        /\ (msg[a].Type = MsgTypeFileOffer /\ reads[a] = 2) => Len(Decided(wire[a])) <= 1

(* ======================= properties of SpecLive ======================== *)

\* The task holds the registry lock, in write or in read mode.
Holds(t) == mutex.w = t \/ t \in mutex.r

\* The positions of a handler inside a section of the registry lock: join,
\* broadcast of the join notice, of a chat line, snapshot, unicast lookup or
\* broadcast of an offer, leave, broadcast of the leave notice.
InSection ==
    {"adding", "announcing", "chatting", "listing", "routing", "removing", "parting"}

\* The positions of a handler between two frames: not accepted yet, waiting
\* for the first frame, waiting for the next one, returned.
AtRest == {"idle", "connecting", "loop", "done"}

\* C38: the registry lock is never acquired by a task that holds it and is
\* released at the end of every operation that takes it, so that no task
\* waits for it forever.  A handler holds the lock exactly while it is
\* inside a section, and the UI goroutine exactly while Shutdown writes and
\* closes; every call of the lock is made from outside the sections.  With
\* goroutines scheduled and writes completing, a handler that has read a
\* frame, or seen its read fail, gets back to its read loop or returns, and
\* a Shutdown that has called Lock completes.
C38_LockAlwaysReleased ==
    /\ [](\A c \in Conns : Holds(c) <=> pc[c] \in InSection)
    /\ [](Holds(HostTask) <=> hpc.at = "closing")
    /\ [][\A c \in Conns : ~Holds(c) /\ Holds(c)' => pc[c] \notin InSection]_vars
    /\ \A c \in Conns : (pc[c] \notin AtRest) ~> (pc[c] \in {"loop", "done"})
    /\ (hpc.at = "locking") ~> (hpc.at = "closed")

\* C38 witness: a handler has called Lock to remove its connection and
\* waits, because another handler is inside the broadcast of its join
\* notice, while a third task, the UI goroutine in Shutdown, waits for the
\* lock as well.
C38_Witness ==
    \E c \in Conns : \E d \in Conns \ {c} :
        /\ pc[c] = "failed" /\ c \in clients
        /\ pc[d] = "announcing" /\ d \in mutex.r
        /\ hpc.at = "locking"

(* ====================== properties of SpecSender ======================= *)

\* The kinds of frame the host relays with a sender nickname.
RelayedTypes ==
    {MsgTypeMsg, MsgTypeFileOffer, MsgTypeFile, MsgTypeFileAcc, MsgTypeFileRej}

\* The frames the step writes on connection r.
Written(r) == {wire'[r][i] : i \in (Len(wire[r]) + 1)..Len(wire'[r])}

\* C35: every Chat, FileOffer, FileData, FileAccept and FileReject frame the
\* host relays carries the registry nickname of the connection it came
\* from, whatever the nick field of the frame read.  In a step in which
\* handler c dispatches a frame of one of these kinds, or routes a file
\* offer it has read, every frame written on any connection is written by
\* c, is of such a kind and has c's registry nickname as its nick field;
\* and frames of these kinds are written in no other step.
C35_RelayedUnderRegistryNick ==
    /\ [][\A c \in Conns :
            (\E t \in RelayedTypes : Dispatches(c, t)) \/ RoutesOffer(c) =>
                \A r \in Conns : \A f \in Written(r) :
                    /\ f.by = c
                    /\ f.msg.Type \in RelayedTypes
                    /\ f.msg.Nick = nick[c]]_vars
    /\ [][\A r \in Conns : \A f \in Written(r) :
            f.msg.Type \in RelayedTypes =>
                /\ f.by \in Conns
                /\ (\E t \in RelayedTypes : Dispatches(f.by, t)) \/ RoutesOffer(f.by)
                /\ f.msg.Nick = nick[f.by]]_vars

\* C35 witness: c, registered under one nickname, sent a chat line with
\* another nickname in its nick field, and r has it as c's line under c's
\* registry nickname; c also had a file offer under the other nickname
\* recorded under its own.
C35_Witness ==
    \E c \in Conns : \E r \in Conns \ {c} :
        /\ Live(c) /\ Live(r) /\ pc[c] = "loop"
        /\ msg[c].Type = MsgTypeMsg /\ msg[c].Nick # nick[c]
        /\ wire[r] # <<>>
        /\ LastFrame(wire, r) = Frame(Message(MsgTypeMsg, nick[c], msg[c].Text, "", ""), c)
        /\ nick[c] \in DOMAIN pendingOffers
        /\ msg[c].Nick \notin DOMAIN pendingOffers

=============================================================================
